---- MODULE Spec2Model ----
(***************************************************************************)
(* A model of the query client: configuration resolution, retry delays,    *)
(* the weak association registry, the observable cell, the eviction        *)
(* controller and the fetch/retry orchestrator.                            *)
(*                                                                         *)
(* Durations are in milliseconds in the configuration layer.  In the       *)
(* engine the eviction timers count abstract ticks.                        *)
(***************************************************************************)
EXTENDS Integers, Sequences, FiniteSets, TLC

VARIABLES
    pin,        \* input of the pure function under check
    pout,       \* its output (<<>> until applied)
    tstate,     \* registry: each Target is "unborn", "alive" or "dead"
    lstate,     \* registry: each WeakLink is "unborn", "alive" or "dead"
    rows,       \* registry: WeakLinkInner.targets, the Targets each WeakLink holds a row for
    reg,        \* registry: TargetInner.links, the WeakLinks registered with each Target
    hadRow,     \* history: the (link, target) pairs a living link ever held a row for
    scn,        \* engine: the configuration the clients and queries were built with
    online,     \* engine: navigator.onLine
    handler,    \* engine: the OnlineHandler ("absent", or its `online` cell)
    nextId,     \* engine: atomic_id::ID
    entry,      \* engine: the FetchMeta row of each (client cache, query) pair
    fetch,      \* engine: the fetch calls, each with its position and result
    guard,      \* engine: the Guards handed out by subscribe_query
    seen,       \* history: the values each handler was called with
    idle,       \* history: ticks each row has spent with no live Guard
    evicted,    \* history: whether the controller removed a row, and in which state
    last,       \* engine: what the step just taken returned, if it was a cache call
    cell,       \* listenable.rs: one Listenable, its listeners and the calls they received
    fh,         \* future_handle.rs: one spawned future, its FutureHandle and its cleanups
    mu,         \* client.rs: one call of QueryClient::mutate
    ssr,        \* client/engine.rs: the SsrQueryClient, its callers and its client thread
    ctl,        \* cache.rs: one CacheControl and the eviction tasks it spawned
    oh          \* browser/online_handler.rs: navigator.onLine, the OnlineHandler, the callers of wait

pureVars == <<pin, pout>>
regVars == <<tstate, lstate, rows, reg, hadRow>>
engVars == <<scn, online, handler, nextId, entry, fetch, guard, seen, idle, evicted, last>>
cmpVars == <<cell, fh, mu, ssr, ctl, oh>>
vars == <<pureVars, regVars, engVars, cmpVars>>

(***************************************************************************)
(* Options: SetOption<T> is Inherrit or Set(v); Option<T> is <<>> or <<v>>. *)
(***************************************************************************)
Inherrit == [tag |-> "Inherrit"]
Set(v) == [tag |-> "Set", v |-> v]

None == <<>>
Some(v) == <<v>>

Min(a, b) == IF a <= b THEN a ELSE b

\* config.rs: CacheTime
Infinite == [kind |-> "Infinite", dur |-> 0]
Duration(d) == [kind |-> "Duration", dur |-> d]

FiveMinutesMs == 300000
CacheTime_const_default == Duration(FiveMinutesMs)

NetworkMode_const_default == "Online"

\* config/retry.rs
Num(n) == [kind |-> "Num", n |-> n]
RetryInfinite == [kind |-> "Infinite", n |-> 0]
Backoff(initial, maximum) == [kind |-> "Backoff", initial |-> initial, maximum |-> maximum]
Always(d) == [kind |-> "Always", initial |-> d, maximum |-> d]

DefaultRetryNum == 3
DefaultInitialMs == 1000
DefaultMaximumMs == 30000

RetryPolicy_const_default == Num(DefaultRetryNum)
RetryDelay_const_default == Backoff(DefaultInitialMs, DefaultMaximumMs)
\* a mutated default: one retry
RetryConfig_default_one_retry == [policy |-> Num(1), delay |-> RetryDelay_const_default]
RetryConfig_default == [policy |-> RetryPolicy_const_default, delay |-> RetryDelay_const_default]

(***************************************************************************)
(* config/resolve.rs                                                       *)
(***************************************************************************)
as_option(o) == IF o.tag = "Set" THEN Some(o.v) ELSE None

\* GetOption::get for ClientOpts, QueryOpts and MutationOpts
get(opts, opt) ==
    IF opt = "CacheTime" THEN as_option(opts.cache_time)
    ELSE as_option(opts.network_mode)

\* a mutated lookup: the category default is read from the wrong category
resolve_option_inner_wrong_category(opt, client, action) ==
    IF get(action.opts, opt) # None THEN get(action.opts, opt)
    ELSE LET cat == IF action.action_type = "Query" THEN client.mutation ELSE client.query
         IN  IF cat # None /\ get(cat[1], opt) # None THEN get(cat[1], opt)
             ELSE get(client, opt)

resolve_option_inner(opt, client, action) ==
    IF get(action.opts, opt) # None THEN get(action.opts, opt)
    ELSE LET cat == IF action.action_type = "Query" THEN client.query ELSE client.mutation
         IN  IF cat # None /\ get(cat[1], opt) # None THEN get(cat[1], opt)
             ELSE IF get(client, opt) # None THEN get(client, opt)
             ELSE None

T_default(opt) ==
    IF opt = "CacheTime" THEN CacheTime_const_default ELSE NetworkMode_const_default

resolve_option(opt, client, action) ==
    LET r == resolve_option_inner(opt, client, action)
    IN  IF r = None THEN T_default(opt) ELSE r[1]

resolve_retry(client, query) ==
    IF query.retry.tag = "Set" THEN query.retry.v
    ELSE IF client.query # None /\ client.query[1].retry.tag = "Set" THEN client.query[1].retry.v
    ELSE IF client.retry.tag = "Set" THEN client.retry.v
    ELSE RetryConfig_default

QueryAction(opts) == [action_type |-> "Query", opts |-> opts]
MutationAction(opts) == [action_type |-> "Mutation", opts |-> opts]

(***************************************************************************)
(* config/retry.rs: RetryConfig::retry_delay.                              *)
(*                                                                         *)
(* 2_u32.pow(e) is kept as its exponent: the power is exact below the      *)
(* width of u32 and overflows from U32Bits on.  On overflow a build with   *)
(* overflow checks panics and a build without them wraps to 0.             *)
(***************************************************************************)
U32Bits == 32

saturating_sub(a, b) == IF a >= b THEN a - b ELSE 0

\* [overflow, log2]: 2^e as a u32
pow2_u32(e) == [overflow |-> e >= U32Bits, log2 |-> e]

\* Duration::saturating_mul(d, 2^e).min(maximum), for a power that did not overflow
RECURSIVE saturating_mul_min(_, _, _)
saturating_mul_min(d, e, maximum) ==
    IF e = 0 THEN Min(d, maximum)
    ELSE IF d >= maximum THEN maximum
    ELSE saturating_mul_min(2 * d, e - 1, maximum)

\* a mutated policy check: one retry too few
policy_allows_strict(policy, failure_count) ==
    IF policy.kind = "Infinite" THEN TRUE
    ELSE failure_count < policy.n

\* a mutated policy check: one retry too many
policy_allows_generous(policy, failure_count) ==
    IF policy.kind = "Infinite" THEN TRUE
    ELSE failure_count <= policy.n + 1

policy_allows(policy, failure_count) ==
    IF policy.kind = "Infinite" THEN TRUE
    ELSE failure_count <= policy.n

\* the result: [retry |-> whether Some, panic, delay]
retry_delay(cfg, failure_count, checked) ==
    IF ~policy_allows(cfg.policy, failure_count)
    THEN [retry |-> FALSE, panic |-> FALSE, delay |-> 0]
    ELSE IF cfg.delay.kind = "Always"
    THEN [retry |-> TRUE, panic |-> FALSE, delay |-> cfg.delay.initial]
    ELSE LET p == pow2_u32(saturating_sub(failure_count, 1))
         IN  IF p.overflow
             THEN IF checked
                  THEN [retry |-> TRUE, panic |-> TRUE, delay |-> 0]
                  ELSE [retry |-> TRUE, panic |-> FALSE, delay |-> Min(0, cfg.delay.maximum)]
             ELSE [retry |-> TRUE, panic |-> FALSE,
                   delay |-> saturating_mul_min(cfg.delay.initial, p.log2, cfg.delay.maximum)]

\* a mutated mode check: every mode tries without a connection
should_try_offline(mode, count) == TRUE

\* a mutated mode check: Always is handled like Online
should_try_no_always(mode, count) ==
    IF mode = "OfflineFirst" /\ count = 0 THEN TRUE
    ELSE FALSE

\* config.rs: NetworkMode::should_try
should_try(mode, count) ==
    IF mode = "Always" THEN TRUE
    ELSE IF mode = "OfflineFirst" /\ count = 0 THEN TRUE
    ELSE FALSE

(***************************************************************************)
(* The query engine: client.rs with cache.rs, listenable.rs and status.rs, *)
(* as built for wasm32 (the build that reads navigator.onLine).  A step is *)
(* one stretch of code between two awaits of the single-threaded executor. *)
(* Results carry the identity of their Rc (`rc`) next to their value.      *)
(***************************************************************************)
MaxFetches == 4
MaxOverlap == 2
MaxGuards == 2
MaxIds == 4
MaxRetryNum == 2
CacheDur == 1
MaxPauseDepth == 1

Clients == {"c1", "c2"}
Queries == {"q1", "q2"}
AllKeys == Clients \X Queries
FetchIds == 1..MaxFetches
GuardIds == 1..MaxGuards

\* the values the query functions return (lib.rs, multiple_client_query)
QValue(q) == IF q = "q1" THEN 12345 ELSE 67890
QError(q) == IF q = "q1" THEN 1 ELSE 2
\* the Rc allocated for the result of attempt `count` of fetch f
RcOf(f, count) == 100 * f + count

\* a row of the registry, keyed by (cache, query): weak_link.rs Entry
NoEntry == [tag |-> "Vacant"]
\* a mutated key: the row is keyed by the query alone
link_key_shared(client, query) == <<"c1", query>>
link_key(client, query) == <<client, query>>

\* status.rs
LoadingStatus_from_online(on) == IF on THEN "Loading" ELSE "Paused"
LoadingStatus_get(on) == IF on THEN "Loading" ELSE "Paused"
\* a mutated conversion: every loading status reads as Idle
as_query_idle(s) == "Idle"
as_query(s) == s
Loading(s) == [tag |-> "Loading", rc |-> 0, val |-> 0, st |-> s]
Ok(rc, val, s) == [tag |-> "Ok", rc |-> rc, val |-> val, st |-> s]
Err(rc, val, s) == [tag |-> "Err", rc |-> rc, val |-> val, st |-> s]
QueryData_default(on) == Loading(LoadingStatus_get(on))
NoRes == [ok |-> FALSE, rc |-> 0, val |-> 0]

\* listenable.rs: a listener is known by the heap address of its box; the
\* Handle keeps the address of the local variable that held the box
HeapAddr(g) == <<"heap", g>>
StackAddr(g) == <<"stack", g>>
Listenable_new(v) == [value |-> v, listeners |-> {}]
add_listener(l, g) ==
    [l |-> [l EXCEPT !.listeners = @ \cup {HeapAddr(g)}],
     handle |-> [ptr |-> StackAddr(g)]]
remove_listener(l, handle) ==
    LET kept == {e \in l.listeners : e # handle.ptr}
    IN  [l |-> [l EXCEPT !.listeners = kept], len |-> Cardinality(kept)]
\* a mutated notify: no handler is called
notify_nobody(sn, l, published) == sn

\* a mutated notify: only one of the handlers is called
notify_one_listener(sn, l, published) ==
    IF published = None THEN sn
    ELSE [g \in GuardIds |->
            IF HeapAddr(g) \in l.listeners /\ (\A h \in 1..(g - 1) : HeapAddr(h) \notin l.listeners)
            THEN sn[g] \cup {published[1]} ELSE sn[g]]

\* Listenable::notify: the handlers are called with the value
notify(sn, l, published) ==
    IF published = None THEN sn
    ELSE [g \in GuardIds |->
            IF HeapAddr(g) \in l.listeners THEN sn[g] \cup {published[1]} ELSE sn[g]]

\* cache.rs: CacheControl; `task` is the eviction task held in fut_handle
NoTask == [st |-> "none", rem |-> 0, notified |-> FALSE]
SpawnedTask == [st |-> "spawned", rem |-> 0, notified |-> FALSE]
handle_active(cc, new_active) ==
    IF new_active
    THEN [cc EXCEPT !.task.notified = (cc.task.st = "waiting")]
    ELSE [cc EXCEPT !.task = SpawnedTask]
\* a mutated constructor: the eviction task is spawned for every cache time
CacheControl_new_always_timer(cache_time) ==
    [active |-> FALSE, dur |-> Some(cache_time.dur), task |-> SpawnedTask]

CacheControl_new(cache_time) ==
    IF cache_time.kind # "Duration"
    THEN [active |-> FALSE, dur |-> None, task |-> NoTask]
    ELSE [active |-> FALSE, dur |-> Some(cache_time.dur), task |-> SpawnedTask]
set_active(cc, active) ==
    IF cc.active = active THEN cc
    ELSE IF cc.dur = None THEN [cc EXCEPT !.active = active]
    ELSE handle_active([cc EXCEPT !.active = active], active)

\* the options a scenario gives the client and the query
ScnClientOpts(s) ==
    [cache_time |-> Inherrit, network_mode |-> s.network_mode, retry |-> Inherrit,
     query |-> Some([cache_time |-> Set(s.cache_time), network_mode |-> Inherrit,
                     retry |-> Inherrit]),
     mutation |-> None]
\* (a retry_num of NoRetryOpt: the query sets no retry config either)
NoRetryOpt == -1
ScnQueryOpts(s) ==
    [cache_time |-> Inherrit, network_mode |-> Inherrit,
     retry |-> IF s.retry_num = NoRetryOpt THEN Inherrit
               ELSE Set([policy |-> Num(s.retry_num), delay |-> RetryDelay_const_default])]

\* A scenario is the program run against the engine: the options its client
\* and queries are built with, how many fetch calls it makes and how many of
\* them it leaves in flight at once, how many subscribe_query calls it makes,
\* whether it loses connectivity, whether it calls remove_query, and whether
\* it reads the cache: calls query_data and looks at what remove_query returns
\* (a program that does not read calls remove_query on existing entries only).
Harness(keys, modes, retries, times, fetches, overlap, guards, net, remove, reads) ==
    [keys : {keys}, network_mode : modes, retry_num : retries, cache_time : times,
     fetches : {fetches}, overlap : {overlap}, guards : {guards}, net : {net},
     remove : {remove}, reads : {reads}]

OneKey == {link_key("c1", "q1")}

Scenarios ==
    \* overlapping fetches, a subscriber, removal
    Harness(OneKey, {Inherrit}, {0}, {Infinite}, MaxOverlap, MaxOverlap, 1, FALSE, TRUE, FALSE)
    \* retries: two fetch calls under each policy Num(1) .. Num(MaxRetryNum)
    \cup Harness(OneKey, {Inherrit}, 1..MaxRetryNum, {Infinite}, 2, 2, 1, FALSE, TRUE, FALSE)
    \* eviction: a cache time of CacheDur ticks, subscribers coming and going
    \cup Harness(OneKey, {Inherrit}, {0}, {Duration(CacheDur)}, 1, 1, MaxGuards, FALSE, TRUE, FALSE)
    \* connectivity: two fetch calls under each network mode, the connection drops
    \cup Harness(OneKey, {Inherrit, Set("Always"), Set("OfflineFirst")}, {0, 1}, {Infinite},
                 2, 2, 1, TRUE, TRUE, FALSE)
    \* two clients and two queries, fetches overlapping
    \cup Harness(AllKeys, {Inherrit}, {0}, {Infinite}, MaxOverlap, MaxOverlap, 1, FALSE, FALSE, FALSE)
    \* two clients and two queries, each fetch awaited before the next (lib.rs,
    \* multiple_client_query)
    \cup Harness(AllKeys, {Inherrit}, {0}, {Infinite}, MaxFetches, 1, 0, FALSE, FALSE, FALSE)

NoScenario ==
    [keys |-> {}, network_mode |-> Inherrit, retry_num |-> 0, cache_time |-> Infinite,
     fetches |-> 0, overlap |-> 0, guards |-> 0, net |-> FALSE, remove |-> FALSE,
     reads |-> FALSE]

IdleFetch ==
    [phase |-> "idle", client |-> "c1", query |-> "q1", key |-> link_key("c1", "q1"), id |-> 0, count |-> 0, inv |-> 0,
     delays |-> <<>>, ret |-> "none", out |-> "none", res |-> NoRes, pub |-> None,
     depth |-> 0, later |-> {}, before |-> {}]
UnusedGuard ==
    [st |-> "unused", client |-> "c1", key |-> link_key("c1", "q1"), eid |-> 0,
     handle |-> [ptr |-> <<>>]]

\* the step was not a call of query_data or remove_query
NoCall == [call |-> "none", key |-> link_key("c1", "q1"), ret |-> None]

EngStart ==
    /\ online = TRUE
    /\ last = NoCall
    /\ handler = "absent"
    /\ nextId = 0
    /\ entry = [k \in AllKeys |-> NoEntry]
    /\ fetch = [f \in FetchIds |-> IdleFetch]
    /\ guard = [g \in GuardIds |-> UnusedGuard]
    /\ seen = [g \in GuardIds |-> {}]
    /\ idle = [k \in AllKeys |-> 0]
    /\ evicted = [k \in AllKeys |-> "no"]

EngIdle ==
    /\ scn = NoScenario
    /\ EngStart

\* atomic_id.rs: ID is an AtomicUsize.  A usize is kept as the two's-
\* complement reading of its bits, so that usize::MAX (every bit set) is -1
\* and fetch_add(1) takes it to 0; ids are only ever compared for equality.
UsizeBits == 32
UsizeMax == -1
IsizeMax == 2147483647
atomic_id_next(id) == IF id = IsizeMax THEN -IsizeMax - 1 ELSE id + 1

\* a mutated constructor: every row gets the id 0
new_fetch_meta_id_zero(s, on, id) ==
    [tag |-> "Occupied",
     data |-> Listenable_new(QueryData_default(on)),
     id |-> 0,
     future_handles |-> {},
     cache_control |->
        CacheControl_new(resolve_option("CacheTime", ScnClientOpts(s),
                                        QueryAction(ScnQueryOpts(s))))]

\* client.rs new_fetch_meta
new_fetch_meta(s, on, id) ==
    [tag |-> "Occupied",
     data |-> Listenable_new(QueryData_default(on)),
     id |-> id,
     future_handles |-> {},
     cache_control |->
        CacheControl_new(resolve_option("CacheTime", ScnClientOpts(s),
                                        QueryAction(ScnQueryOpts(s))))]

\* weak_link: with_or_else, the rows after the default was inserted if absent
with_or_else(rws, k, default) ==
    IF rws[k] = NoEntry THEN [rws EXCEPT ![k] = default] ELSE rws

InFlight(fr) == fr.phase \in {"executing", "sleeping", "waitOnline"}

\* a mutated result: every fetch reports Fresh
Return_always_fresh(fr, outcome, res) ==
    [fr EXCEPT !.phase = "done", !.out = "Fresh", !.res = res,
               !.ret = IF fr.depth = 0 THEN "Fresh" ELSE @]

\* a fetch future resolves: to the caller, or into the NoConnection it was
\* handed when the fetch paused
Return(fr, outcome, res) ==
    [fr EXCEPT !.phase = "done", !.out = outcome, !.res = res,
               !.ret = IF fr.depth = 0 THEN outcome ELSE @]

abort_handles_nobody(fs, e) == fs

\* dropping a row drops its future_handles, which aborts the continuation
\* tasks of the fetches that paused on it
abort_handles(fs, e) ==
    [f \in FetchIds |->
        IF InFlight(fs[f]) /\ (\E h \in e.future_handles : h[1] = f)
        THEN [fs[f] EXCEPT !.phase = "aborted"]
        ELSE fs[f]]

\* client.rs, the cleanup registered for the continuation task of a pause:
\* retain keeps the handles whose heap address differs from `ptr`, and `ptr`
\* is the address of the local variable `boxed` that held the Box
handle_cleanup(handles, h) == {e \in handles : HeapAddr(e) # StackAddr(h)}

\* future_handle.rs: the continuation tasks of fetch f have run to their end
\* and each calls its cleanup on the row found under the key
run_handle_cleanups(rws, f, fr) ==
    IF rws[fr.key] = NoEntry THEN rws
    ELSE [rws EXCEPT ![fr.key].future_handles =
            {e \in @ : \A d \in 1..fr.depth : e \in handle_cleanup(@, <<f, d>>)}]

Subscribers(k) ==
    {g \in GuardIds : /\ guard[g].st = "live"
                      /\ guard[g].key = k
                      /\ entry[k] # NoEntry
                      /\ guard[g].eid = entry[k].id}

(***************************************************************************)
(* weak_link.rs: the weak association registry.  A WeakLink keeps a row    *)
(* per Target in `targets`; a Target keeps the WeakLinks registered with   *)
(* it in `links`.  Both sides hold the other by a weak pointer, which      *)
(* upgrades only while the other side is alive.  The value stored in a row *)
(* is left out: its destructor does not call into the registry.            *)
(***************************************************************************)
MaxTargets == 2
MaxLinks == 2

TargetIds == 1..MaxTargets
LinkIds == 1..MaxLinks

\* the components that a specification does not exercise stay as constructed
CellIdle == cell = None
HandleIdle == fh = None
MutateIdle == mu = None
SsrIdle == ssr = None
CtlIdle == ctl = None
OhIdle == oh = None
CmpIdle == CellIdle /\ HandleIdle /\ MutateIdle /\ SsrIdle /\ CtlIdle /\ OhIdle

RegIdle ==
    /\ tstate = [t \in TargetIds |-> "unborn"]
    /\ lstate = [l \in LinkIds |-> "unborn"]
    /\ rows = [l \in LinkIds |-> {}]
    /\ reg = [t \in TargetIds |-> {}]
    /\ hadRow = {}

PureIdle ==
    /\ pin = None
    /\ pout = None

\* Weak::upgrade
upgrade(state, x) == state[x] = "alive"

\* Target::new; the targets are numbered in the order of their creation
Target_new(t) ==
    /\ tstate[t] = "unborn"
    /\ \A s \in TargetIds : s < t => tstate[s] # "unborn"
    /\ tstate' = [tstate EXCEPT ![t] = "alive"]
    /\ UNCHANGED <<lstate, rows, reg, hadRow, pureVars, engVars, cmpVars>>

\* WeakLink::new; the links are numbered in the order of their creation
WeakLink_new(l) ==
    /\ lstate[l] = "unborn"
    /\ \A k \in LinkIds : k < l => lstate[k] # "unborn"
    /\ lstate' = [lstate EXCEPT ![l] = "alive"]
    /\ UNCHANGED <<tstate, rows, reg, hadRow, pureVars, engVars, cmpVars>>

\* WeakLink::link: registers the link with the target (the returned Key names t)
link(l, t) ==
    /\ lstate[l] = "alive"
    /\ tstate[t] = "alive"
    /\ reg' = [reg EXCEPT ![t] = @ \cup {l}]
    /\ UNCHANGED <<tstate, lstate, rows, hadRow, pureVars, engVars, cmpVars>>

\* WeakLink::with_or_default, with_entry + VacantEntry::insert, insert:
\* a row for the Key that link() returned, while the caller holds the target
insert(l, t) ==
    /\ lstate[l] = "alive"
    /\ tstate[t] = "alive"
    /\ l \in reg[t]
    /\ rows' = [rows EXCEPT ![l] = @ \cup {t}]
    /\ hadRow' = hadRow \cup {<<l, t>>}
    /\ UNCHANGED <<tstate, lstate, reg, pureVars, engVars, cmpVars>>

\* WeakLink::drain
drain(l) ==
    /\ lstate[l] = "alive"
    /\ rows[l] # {}
    /\ rows' = [rows EXCEPT ![l] = {}]
    /\ UNCHANGED <<tstate, lstate, reg, hadRow, pureVars, engVars, cmpVars>>

\* a mutated Target drop: the registered links are not told
Target_drop_rows_forgotten(t) == rows

\* Drop for Target: every registered link that still upgrades removes its row for t
Target_drop_rows(t) ==
    [l \in LinkIds |->
        IF l \in reg[t] /\ upgrade(lstate, l) THEN rows[l] \ {t} ELSE rows[l]]

Target_drop(t) ==
    /\ tstate[t] = "alive"
    /\ rows' = Target_drop_rows(t)
    /\ tstate' = [tstate EXCEPT ![t] = "dead"]
    /\ reg' = [reg EXCEPT ![t] = {}]
    /\ UNCHANGED <<lstate, hadRow, pureVars, engVars, cmpVars>>

\* a mutated WeakLink drop: every target forgets all its registrations
WeakLink_drop_reg_everybody(l) == [t \in TargetIds |-> {}]

\* Drop for WeakLink: the link leaves the set of every target it has a row for
\* that still upgrades; its map of rows goes with it
WeakLink_drop_reg(l) ==
    [t \in TargetIds |->
        IF t \in rows[l] /\ upgrade(tstate, t) THEN reg[t] \ {l} ELSE reg[t]]

WeakLink_drop(l) ==
    /\ lstate[l] = "alive"
    /\ reg' = WeakLink_drop_reg(l)
    /\ lstate' = [lstate EXCEPT ![l] = "dead"]
    /\ rows' = [rows EXCEPT ![l] = {}]
    /\ hadRow' = {p \in hadRow : p[1] # l}
    /\ UNCHANGED <<tstate, pureVars, engVars, cmpVars>>

InitRegistry ==
    /\ RegIdle
    /\ CmpIdle
    /\ PureIdle
    /\ EngIdle

NextRegistry ==
    \/ \E t \in TargetIds : Target_new(t)
    \/ \E l \in LinkIds : WeakLink_new(l)
    \/ \E l \in LinkIds, t \in TargetIds : link(l, t)
    \/ \E l \in LinkIds, t \in TargetIds : insert(l, t)
    \/ \E l \in LinkIds : drain(l)
    \/ \E t \in TargetIds : Target_drop(t)
    \/ \E l \in LinkIds : WeakLink_drop(l)

SpecRegistry == InitRegistry /\ [][NextRegistry]_vars

LayerOpts(ct, nm, rn) ==
    { [cache_time |-> c, network_mode |-> n, retry |-> r] :
        c \in {Inherrit, Set(ct)},
        n \in {Inherrit, Set(nm)},
        r \in {Inherrit, Set([policy |-> Num(rn), delay |-> Always(rn)])} }

QueryLayer == LayerOpts(Duration(1), "Always", 1)
ClientQueryLayer == LayerOpts(Infinite, "OfflineFirst", 2)
ClientMutationLayer == LayerOpts(Duration(3), "Always", 5)
ClientLayer == LayerOpts(Duration(4), "OfflineFirst", 4)

ResolveInputs ==
    { [query |-> q,
       client |-> [cache_time |-> c.cache_time, network_mode |-> c.network_mode,
                   retry |-> c.retry, query |-> cq, mutation |-> cm]] :
        q \in QueryLayer, c \in ClientLayer,
        cq \in {None} \cup {Some(x) : x \in ClientQueryLayer},
        cm \in {None} \cup {Some(x) : x \in ClientMutationLayer} }

InitResolve ==
    /\ pin \in ResolveInputs
    /\ pout = None
    /\ RegIdle
    /\ CmpIdle
    /\ EngIdle

Resolve ==
    /\ pout = None
    /\ pout' = Some([cache_time |-> resolve_option("CacheTime", pin.client, QueryAction(pin.query)),
                     network_mode |-> resolve_option("NetworkMode", pin.client, QueryAction(pin.query)),
                     retry |-> resolve_retry(pin.client, pin.query)])
    /\ UNCHANGED <<pin, regVars, engVars, cmpVars>>

NextResolve == Resolve

SpecResolve == InitResolve /\ [][NextResolve]_vars

\* C8: for cache time, network mode and retry config the resolved value is the
\* first Set value in the order query option, client query-category default,
\* client global option, hard default (5 minutes, Online, default retry);
\* the client's mutation-category defaults play no part.
RECURSIVE FirstSet(_, _)
FirstSet(layers, hard) ==
    IF layers = <<>> THEN hard
    ELSE IF Head(layers).tag = "Set" THEN Head(layers).v
    ELSE FirstSet(Tail(layers), hard)

CategoryCacheTime(cat) == IF cat = None THEN Inherrit ELSE cat[1].cache_time
CategoryNetworkMode(cat) == IF cat = None THEN Inherrit ELSE cat[1].network_mode
CategoryRetry(cat) == IF cat = None THEN Inherrit ELSE cat[1].retry

C8_ResolveOrder ==
    pout # None =>
        /\ pout[1].cache_time =
             FirstSet(<<pin.query.cache_time, CategoryCacheTime(pin.client.query),
                        pin.client.cache_time>>, Duration(5 * 60 * 1000))
        /\ pout[1].network_mode =
             FirstSet(<<pin.query.network_mode, CategoryNetworkMode(pin.client.query),
                        pin.client.network_mode>>, "Online")
        /\ pout[1].retry =
             FirstSet(<<pin.query.retry, CategoryRetry(pin.client.query),
                        pin.client.retry>>, RetryConfig_default)

\* C8 witness: the query and the query category inherit, the mutation category
\* sets every option, and resolution falls through to the hard defaults.
C8_Witness ==
    /\ pout # None
    /\ pin.query = [cache_time |-> Inherrit, network_mode |-> Inherrit, retry |-> Inherrit]
    /\ pin.client.query # None
    /\ pin.client.query[1].cache_time = Inherrit
    /\ pin.client.mutation # None
    /\ pin.client.mutation[1].cache_time.tag = "Set"
    /\ pin.client.mutation[1].network_mode.tag = "Set"
    /\ pin.client.cache_time = Inherrit
    /\ pin.client.network_mode = Inherrit
    /\ pout[1].cache_time = Duration(300000)
    /\ pout[1].network_mode = "Online"

(***************************************************************************)
(* Specification of the retry delay: the failure count, the backoff        *)
(* parameters and the build's overflow checking are drawn from small sets. *)
(***************************************************************************)
MaxFailureCount == 34

RetryInputs ==
    { [cfg |-> [policy |-> RetryInfinite, delay |-> Backoff(i, m)],
       failure_count |-> fc, checked |-> b] :
        i \in {1, DefaultInitialMs}, m \in {7, DefaultMaximumMs},
        fc \in 1..MaxFailureCount, b \in BOOLEAN }

InitRetry ==
    /\ pin \in RetryInputs
    /\ pout = None
    /\ RegIdle
    /\ CmpIdle
    /\ EngIdle

RetryDelay ==
    /\ pout = None
    /\ pout' = Some(retry_delay(pin.cfg, pin.failure_count, pin.checked))
    /\ UNCHANGED <<pin, regVars, engVars, cmpVars>>

NextRetry == RetryDelay

SpecRetry == InitRetry /\ [][NextRetry]_vars

\* min(initial * 2^(failure_count - 1), maximum), by induction on the count
RECURSIVE ExpBackoff(_, _, _)
ExpBackoff(initial, failure_count, maximum) ==
    IF failure_count <= 1 THEN Min(initial, maximum)
    ELSE Min(2 * ExpBackoff(initial, failure_count - 1, maximum), maximum)

\* C9: under Backoff the delay is min(initial * 2^(failure_count - 1), maximum)
\* for every failure count from 1 on, and computing it never panics.
C9_BackoffFormula ==
    pout # None =>
        /\ ~pout[1].panic
        /\ pout[1].retry
        /\ pout[1].delay = ExpBackoff(pin.cfg.delay.initial, pin.failure_count,
                                      pin.cfg.delay.maximum)


ScnNetworkMode ==
    resolve_option("NetworkMode", ScnClientOpts(scn), QueryAction(ScnQueryOpts(scn)))
ScnRetry == resolve_retry(ScnClientOpts(scn), ScnQueryOpts(scn))

\* a mutated id check: any occupied row counts as the fetch's own
superseded_ignores_id(e, id) == e = NoEntry

\* client.rs fetch_with_arg_inner: the row is vacant or carries another id
\* (the guards of the claim check and of the commit)
superseded(e, id) == e = NoEntry \/ e.id # id

\* client.rs fetch_with_arg_inner, from its start to the first await: the
\* claim check, the status publication and the choice between pausing and
\* calling the query function.  `ent` and `base` are the rows and the fetch
\* calls as the caller left them.
fetch_with_arg_inner(f, fr, ent, base) ==
    LET k == fr.key
        e == ent[k]
        new_status == LoadingStatus_from_online(online)
    IN  IF superseded(e, fr.id)
        THEN /\ fetch' = [base EXCEPT ![f] = Return(fr, "Cancelled", NoRes)]
             /\ entry' = run_handle_cleanups(ent, f, fr)
             /\ seen' = seen
        ELSE LET d == e.data.value
                 changed == IF d.tag = "Loading" THEN d.st # new_status
                            ELSE d.st # as_query(new_status)
                 nd == [d EXCEPT !.st = new_status]
                 e1 == IF changed THEN [e EXCEPT !.data.value = nd] ELSE e
                 pause == ~online /\ ~should_try(ScnNetworkMode, fr.count)
             IN  /\ pause => fr.depth < MaxPauseDepth
                 /\ seen' = notify(seen, e.data, IF changed THEN Some(nd) ELSE None)
                 /\ IF pause
                    THEN /\ entry' = [ent EXCEPT ![k] =
                                [e1 EXCEPT !.future_handles = @ \cup {<<f, fr.depth + 1>>}]]
                         /\ fetch' = [base EXCEPT ![f] =
                                [fr EXCEPT !.phase = "waitOnline",
                                           !.depth = @ + 1,
                                           !.ret = IF fr.depth = 0 THEN "NoConnection" ELSE @]]
                    ELSE /\ entry' = [ent EXCEPT ![k] = e1]
                         /\ fetch' = [base EXCEPT ![f] =
                                [fr EXCEPT !.phase = "executing", !.inv = @ + 1]]

\* client.rs fetch_with_arg
FetchStart(f, c, q) ==
    /\ f <= scn.fetches
    /\ Cardinality({g \in FetchIds : InFlight(fetch[g])}) < scn.overlap
    /\ fetch[f].phase = "idle"
    /\ \A g \in FetchIds : g < f => fetch[g].phase # "idle"
    /\ <<c, q>> \in scn.keys
    /\ entry[link_key(c, q)] = NoEntry => nextId < MaxIds
    /\ LET k == link_key(c, q)
           ent == with_or_else(entry, k, new_fetch_meta(scn, online, nextId))
           fr == [IdleFetch EXCEPT !.client = c, !.query = q, !.key = k,
                                   !.id = ent[k].id, !.count = 1]
           base == [g \in FetchIds |->
                      IF g # f /\ InFlight(fetch[g]) /\ fetch[g].key = k
                      THEN [fetch[g] EXCEPT !.later = @ \cup {f}]
                      ELSE fetch[g]]
       IN  /\ fetch_with_arg_inner(f, fr, ent, base)
           /\ nextId' = IF entry[k] = NoEntry THEN atomic_id_next(nextId) ELSE nextId
           /\ idle' = IF entry[k] = NoEntry THEN [idle EXCEPT ![k] = 0] ELSE idle
    /\ last' = NoCall
    /\ UNCHANGED <<scn, online, handler, guard, evicted, pureVars, regVars, cmpVars>>

\* client.rs fetch_with_arg_inner, from the return of the query function to
\* the next await: the commit.  The retry count stays far below the width of
\* u32 here, so the build's overflow checking plays no part.
FetchComplete(f, ok) ==
    /\ fetch[f].phase = "executing"
    /\ LET fr == [fetch[f] EXCEPT !.before =
                    {g \in FetchIds \ {f} : fetch[g].inv >= 1 /\ fetch[g].phase # "executing"}]
           k == fr.key
           e == entry[k]
           rc == RcOf(f, fr.count)
           res == [ok |-> ok, rc |-> rc,
                   val |-> IF ok THEN QValue(fr.query) ELSE QError(fr.query)]
           rd == retry_delay(ScnRetry, fr.count, FALSE)
           result == IF ok THEN Ok(rc, res.val, "Idle")
                     ELSE Err(rc, res.val, IF rd.retry THEN "Loading" ELSE "Idle")
       IN  IF ~superseded(e, fr.id)
           THEN /\ entry' = IF ~ok /\ rd.retry
                            THEN [entry EXCEPT ![k].data.value = result]
                            ELSE run_handle_cleanups(
                                    [entry EXCEPT ![k].data.value = result], f, fr)
                /\ seen' = notify(seen, e.data, Some(result))
                /\ fetch' = [fetch EXCEPT ![f] =
                       IF ~ok /\ rd.retry
                       THEN [fr EXCEPT !.phase = "sleeping",
                                       !.delays = Append(@, rd.delay),
                                       !.res = res,
                                       !.pub = Some(result)]
                       ELSE Return([fr EXCEPT !.pub = Some(result)], "Fresh", res)]
           ELSE /\ fetch' = [fetch EXCEPT ![f] = Return(fr, "Stale", res)]
                /\ entry' = run_handle_cleanups(entry, f, fr)
                /\ seen' = seen
    /\ last' = NoCall
    /\ UNCHANGED <<scn, online, handler, nextId, guard, idle, evicted, pureVars, regVars, cmpVars>>

\* client.rs fetch_with_arg_inner: the retry sleep ends and the function
\* calls itself with the next count
RetryWake(f) ==
    /\ fetch[f].phase = "sleeping"
    /\ fetch_with_arg_inner(f, [fetch[f] EXCEPT !.count = @ + 1], entry, fetch)
    /\ last' = NoCall
    /\ UNCHANGED <<scn, online, handler, nextId, guard, idle, evicted, pureVars, regVars, cmpVars>>

\* online_handler.rs OnlineHandler::wait, as the continuation task of a
\* paused fetch runs it: get_handler builds the handler with its `online`
\* cell true, and the loop is entered only while the cell is false
ContResume(f) ==
    /\ fetch[f].phase = "waitOnline"
    /\ LET h == IF handler = "absent" THEN "online" ELSE handler
       IN  /\ h = "online" \/ online
           /\ handler' = "online"
    /\ fetch_with_arg_inner(f, fetch[f], entry, fetch)
    /\ last' = NoCall
    /\ UNCHANGED <<scn, online, nextId, guard, idle, evicted, pureVars, regVars, cmpVars>>

\* client.rs subscribe_query
Subscribe(g, c, q) ==
    /\ g <= scn.guards
    /\ guard[g].st = "unused"
    /\ \A h \in GuardIds : h < g => guard[h].st # "unused"
    /\ <<c, q>> \in scn.keys
    /\ entry[link_key(c, q)] = NoEntry => nextId < MaxIds
    /\ LET k == link_key(c, q)
           ent == with_or_else(entry, k, new_fetch_meta(scn, online, nextId))
           e == ent[k]
           al == add_listener(e.data, g)
       IN  /\ entry' = [ent EXCEPT ![k] =
                  [e EXCEPT !.cache_control = set_active(@, TRUE), !.data = al.l]]
           /\ guard' = [guard EXCEPT ![g] =
                  [st |-> "live", client |-> c, key |-> k, eid |-> e.id,
                   handle |-> al.handle]]
           /\ nextId' = IF entry[k] = NoEntry THEN atomic_id_next(nextId) ELSE nextId
           /\ idle' = [idle EXCEPT ![k] = 0]
    /\ last' = NoCall
    /\ UNCHANGED <<scn, online, handler, fetch, seen, evicted, pureVars, regVars, cmpVars>>

\* client.rs: Drop for Guard runs the unlisten closure
DropGuard(g) ==
    /\ guard[g].st = "live"
    /\ LET k == guard[g].key
           e == entry[k]
           r == remove_listener(e.data, guard[g].handle)
       IN  /\ entry' = IF e = NoEntry THEN entry
                       ELSE [entry EXCEPT ![k] =
                               [e EXCEPT !.data = r.l,
                                         !.cache_control =
                                            IF r.len = 0 THEN set_active(@, FALSE) ELSE @]]
           /\ idle' = IF Subscribers(k) = {g} THEN [idle EXCEPT ![k] = 0] ELSE idle
    /\ guard' = [guard EXCEPT ![g].st = "dropped"]
    /\ last' = NoCall
    /\ UNCHANGED <<scn, online, handler, nextId, fetch, seen, evicted, pureVars, regVars, cmpVars>>

\* a mutated removal: the data is returned and the row is kept
remove_inner_keeps_row(rws, k) ==
    IF rws[k] = NoEntry THEN [rows |-> rws, ret |-> None]
    ELSE [rows |-> rws, ret |-> Some(rws[k].data.value)]

\* cache/query.rs remove_inner: the rows afterwards and the returned data
\* (OccupiedEntry::remove, then Listenable::unwrap)
remove_inner(rws, k) ==
    IF rws[k] = NoEntry THEN [rows |-> rws, ret |-> None]
    ELSE [rows |-> [rws EXCEPT ![k] = NoEntry], ret |-> Some(rws[k].data.value)]

\* cache/query.rs remove_query; the removed row is dropped with its handles
RemoveQuery(c, q) ==
    /\ scn.remove
    /\ <<c, q>> \in scn.keys
    /\ entry[link_key(c, q)] # NoEntry \/ scn.reads
    /\ LET k == link_key(c, q)
           r == remove_inner(entry, k)
       IN  /\ entry' = r.rows
           /\ fetch' = IF entry[k] # NoEntry /\ r.rows[k] = NoEntry
                        THEN abort_handles(fetch, entry[k]) ELSE fetch
           /\ idle' = [idle EXCEPT ![k] = 0]
           /\ last' = IF scn.reads THEN [call |-> "remove_query", key |-> k, ret |-> r.ret]
                       ELSE NoCall
    /\ UNCHANGED <<scn, online, handler, nextId, guard, seen, evicted, pureVars, regVars, cmpVars>>

\* a mutated read: a missing row reads as the default data
QueryCache_data_or_default(rws, k) ==
    IF rws[k] = NoEntry THEN Some(QueryData_default(TRUE)) ELSE Some(rws[k].data.value)

\* cache/query.rs QueryCache::data over weak_link.rs WeakLink::borrow
QueryCache_data(rws, k) ==
    IF rws[k] = NoEntry THEN None ELSE Some(rws[k].data.value)

\* client.rs query_data
query_data(c, q) ==
    /\ scn.reads
    /\ <<c, q>> \in scn.keys
    /\ last' = [call |-> "query_data", key |-> link_key(c, q),
                ret |-> QueryCache_data(entry, link_key(c, q))]
    /\ UNCHANGED <<scn, online, handler, nextId, entry, fetch, guard, seen, idle, evicted,
                   pureVars, regVars, cmpVars>>

\* cache.rs: the first poll of the eviction task
TimerStart(k) ==
    /\ entry[k] # NoEntry
    /\ entry[k].cache_control.task.st = "spawned"
    /\ entry' = [entry EXCEPT ![k].cache_control.task =
           IF entry[k].cache_control.active THEN NoTask
           ELSE [st |-> "waiting", rem |-> entry[k].cache_control.dur[1], notified |-> FALSE]]
    /\ last' = NoCall
    /\ UNCHANGED <<scn, online, handler, nextId, fetch, guard, seen, idle, evicted,
                   pureVars, regVars, cmpVars>>

\* cache.rs: select! takes the sleep branch and the row is removed
TimerFire(k) ==
    /\ entry[k] # NoEntry
    /\ entry[k].cache_control.task.st = "waiting"
    /\ entry[k].cache_control.task.rem = 0
    /\ evicted' = [evicted EXCEPT ![k] =
           IF entry[k].cache_control.active THEN "active" ELSE "inactive"]
    /\ entry' = [entry EXCEPT ![k] = NoEntry]
    /\ fetch' = abort_handles(fetch, entry[k])
    /\ idle' = [idle EXCEPT ![k] = 0]
    /\ last' = NoCall
    /\ UNCHANGED <<scn, online, handler, nextId, guard, seen, pureVars, regVars, cmpVars>>

\* cache.rs: select! takes the notified branch and the loop tests `active`
TimerNotified(k) ==
    /\ entry[k] # NoEntry
    /\ entry[k].cache_control.task.st = "waiting"
    /\ entry[k].cache_control.task.notified
    /\ entry' = [entry EXCEPT ![k].cache_control.task =
           IF entry[k].cache_control.active THEN NoTask ELSE [@ EXCEPT !.notified = FALSE]]
    /\ last' = NoCall
    /\ UNCHANGED <<scn, online, handler, nextId, fetch, guard, seen, idle, evicted,
                   pureVars, regVars, cmpVars>>

Runnable(e) ==
    /\ e # NoEntry
    /\ \/ e.cache_control.task.st = "spawned"
       \/ /\ e.cache_control.task.st = "waiting"
          /\ e.cache_control.task.rem = 0 \/ e.cache_control.task.notified

Unwatched(k) ==
    /\ entry[k] # NoEntry
    /\ entry[k].cache_control.dur # None
    /\ Subscribers(k) = {}
    /\ idle[k] <= entry[k].cache_control.dur[1]

\* one unit of time passes; a task that can run is polled before time moves on
Tick ==
    /\ \A k \in AllKeys : ~Runnable(entry[k])
    /\ \E k \in AllKeys :
          Unwatched(k) \/ (entry[k] # NoEntry /\ entry[k].cache_control.task.st = "waiting")
    /\ entry' = [k \in AllKeys |->
           IF entry[k] # NoEntry /\ entry[k].cache_control.task.st = "waiting"
           THEN [entry[k] EXCEPT !.cache_control.task.rem = @ - 1]
           ELSE entry[k]]
    /\ idle' = [k \in AllKeys |-> IF Unwatched(k) THEN idle[k] + 1 ELSE idle[k]]
    /\ last' = NoCall
    /\ UNCHANGED <<scn, online, handler, nextId, fetch, guard, seen, evicted,
                   pureVars, regVars, cmpVars>>

\* the browser loses the connection
GoOffline ==
    /\ scn.net
    /\ online
    /\ online' = FALSE
    /\ last' = NoCall
    /\ UNCHANGED <<scn, handler, nextId, entry, fetch, guard, seen, idle, evicted,
                   pureVars, regVars, cmpVars>>

\* the browser regains the connection and fires the "online" event
GoOnline ==
    /\ ~online
    /\ online' = TRUE
    /\ handler' = IF handler = "absent" THEN "absent" ELSE "online"
    /\ last' = NoCall
    /\ UNCHANGED <<scn, nextId, entry, fetch, guard, seen, idle, evicted,
                   pureVars, regVars, cmpVars>>

Init ==
    /\ scn \in Scenarios
    /\ EngStart
    /\ PureIdle
    /\ RegIdle
    /\ CmpIdle

Next ==
    \/ \E f \in FetchIds, c \in Clients, q \in Queries : FetchStart(f, c, q)
    \/ \E f \in FetchIds, ok \in BOOLEAN : FetchComplete(f, ok)
    \/ \E f \in FetchIds : RetryWake(f)
    \/ \E f \in FetchIds : ContResume(f)
    \/ \E g \in GuardIds, c \in Clients, q \in Queries : Subscribe(g, c, q)
    \/ \E g \in GuardIds : DropGuard(g)
    \/ \E c \in Clients, q \in Queries : RemoveQuery(c, q)
    \/ \E k \in AllKeys : TimerStart(k)
    \/ \E k \in AllKeys : TimerFire(k)
    \/ \E k \in AllKeys : TimerNotified(k)
    \/ Tick
    \/ GoOffline
    \/ GoOnline

Spec == Init /\ [][Next]_vars

(***************************************************************************)
(* Specification of the cache reads: the engine run by programs that call  *)
(* query_data and look at what remove_query returns.                       *)
(***************************************************************************)
\* a query in two caches and a second query in the first of them
ThreeKeys == {link_key("c1", "q1"), link_key("c2", "q1"), link_key("c1", "q2")}

CacheScenarios ==
    \* three entries, two fetch calls one after the other, a subscriber, removal
    Harness(ThreeKeys, {Inherrit}, {0}, {Infinite}, 2, 1, 1, FALSE, TRUE, TRUE)
    \* one entry with an eviction timer and retries, the connection drops
    \cup Harness(OneKey, {Inherrit}, {1}, {Duration(CacheDur)}, 1, 1, 1, TRUE, TRUE, TRUE)
    \* one entry, no layer sets a retry config
    \cup Harness(OneKey, {Inherrit}, {NoRetryOpt}, {Infinite}, 1, 1, 1, FALSE, FALSE, TRUE)

InitCache ==
    /\ scn \in CacheScenarios
    /\ EngStart
    /\ PureIdle
    /\ RegIdle
    /\ CmpIdle

NextCache ==
    \/ Next
    \/ \E c \in Clients, q \in Queries : query_data(c, q)

SpecCache == InitCache /\ [][NextCache]_vars

(***************************************************************************)
(* Specification of the connectivity pauses with the scheduling stated:    *)
(* the executor polls every task that can run (the continuation of a       *)
(* paused fetch, a retry whose sleep ended) and the query function returns.*)
(* The connection comes and goes as the browser reports it.                *)
(***************************************************************************)
LiveScenarios ==
    Harness(OneKey, {Inherrit}, {0, 1}, {Infinite}, 2, 2, 0, TRUE, TRUE, FALSE)

InitLive ==
    /\ scn \in LiveScenarios
    /\ EngStart
    /\ PureIdle
    /\ RegIdle
    /\ CmpIdle

NextLive ==
    \/ \E f \in FetchIds, c \in Clients, q \in Queries : FetchStart(f, c, q)
    \/ \E f \in FetchIds, ok \in BOOLEAN : FetchComplete(f, ok)
    \/ \E f \in FetchIds : RetryWake(f)
    \/ \E f \in FetchIds : ContResume(f)
    \/ \E c \in Clients, q \in Queries : RemoveQuery(c, q)
    \/ GoOffline
    \/ GoOnline

SpecLive ==
    /\ InitLive
    /\ [][NextLive]_vars
    /\ \A f \in FetchIds : WF_vars(\E ok \in BOOLEAN : FetchComplete(f, ok))
    /\ \A f \in FetchIds : WF_vars(RetryWake(f))
    /\ \A f \in FetchIds : WF_vars(ContResume(f))

(***************************************************************************)
(* Properties of the engine.                                               *)
(***************************************************************************)
Done(f) == fetch[f].phase = "done"
SawResultOf(f) ==
    \E g \in GuardIds : \E v \in seen[g] : v.tag # "Loading" /\ v.rc = fetch[f].res.rc

\* C1: when fetch B is issued while the function of fetch A is still running
\* and A's function completes after B's, A returns Stale carrying its own
\* result, the cache does not hold A's result and no subscriber is notified
\* with it.
C1_OverlappedFetchIsStale ==
    \A a, b \in FetchIds :
        (/\ a # b
         /\ Done(a) /\ Done(b)
         /\ fetch[a].inv = 1 /\ fetch[b].inv = 1
         /\ b \in fetch[a].later
         /\ b \in fetch[a].before)
        => /\ fetch[a].out = "Stale"
           /\ fetch[a].res.rc = RcOf(a, 1)
           /\ ~SawResultOf(a)
           /\ entry[fetch[a].key] # NoEntry =>
                 entry[fetch[a].key].data.value.rc # fetch[a].res.rc

\* C2 as stated: a fetch that overlaps an earlier one on the same entry does
\* not invoke the query function again.
C2_Deduplicated ==
    \A a, b \in FetchIds :
        (/\ a # b
         /\ b \in fetch[a].later
         /\ fetch[a].id = fetch[b].id)
        => fetch[b].inv = 0

\* C2 amended: a fetch issued while an earlier fetch for the same query and
\* client is in flight on the entry joins that entry (it captures the same id
\* and no entry is created) and, when connectivity is up or the network mode
\* is Always, invokes the query function itself: requests are not
\* deduplicated.
C2_OverlapInvokesAgain ==
    [][\A a, b \in FetchIds :
          (/\ a # b
           /\ fetch[b].phase = "idle" /\ fetch'[b].phase # "idle"
           /\ InFlight(fetch[a])
           /\ fetch[a].key = fetch'[b].key
           /\ entry[fetch[a].key] # NoEntry
           /\ entry[fetch[a].key].id = fetch[a].id)
          => /\ fetch'[b].id = fetch[a].id
             /\ nextId' = nextId
             /\ (online \/ scn.network_mode = Set("Always"))
                   => fetch'[b].phase = "executing" /\ fetch'[b].inv = 1]_vars

\* C2 witness: two fetches on one entry are both running the query function.
C2_Witness ==
    \E a, b \in FetchIds :
        /\ a # b
        /\ fetch[a].phase = "executing" /\ fetch[b].phase = "executing"
        /\ fetch[a].key = fetch[b].key
        /\ fetch[a].id = fetch[b].id
        /\ b \in fetch[a].later

\* the delays of n retries under the default backoff
RECURSIVE DefaultDelays(_)
DefaultDelays(n) ==
    IF n = 0 THEN <<>> ELSE Append(DefaultDelays(n - 1), ExpBackoff(1000, n, 30000))

\* C3: under Num(n) with the default backoff no fetch invokes the function
\* more than n + 1 times, and a fetch that ends with Fresh(Err(e)) invoked it
\* exactly n + 1 times, slept the backoff delays between the attempts (1000
\* then 2000 ms for Num(2)), published Err(e, Idle) last and, unless it
\* paused for connectivity, returned Fresh(Err(e)) to its caller.
C3_RetryCount ==
    \A f \in FetchIds :
        /\ fetch[f].inv <= scn.retry_num + 1
        /\ (Done(f) /\ fetch[f].out = "Fresh" /\ ~fetch[f].res.ok)
           => /\ fetch[f].inv = scn.retry_num + 1
              /\ fetch[f].delays = DefaultDelays(scn.retry_num)
              /\ scn.retry_num = 2 => fetch[f].delays = <<1000, 2000>>
              /\ fetch[f].pub = Some(Err(fetch[f].res.rc, fetch[f].res.val, "Idle"))
              /\ fetch[f].depth = 0 => fetch[f].ret = "Fresh"

\* C3 witness: under Num(2) a fetch ended with Fresh(Err) after three invocations.
C3_Witness ==
    \E f \in FetchIds :
        /\ scn.retry_num = 2
        /\ Done(f) /\ fetch[f].out = "Fresh" /\ ~fetch[f].res.ok
        /\ fetch[f].inv = 3
        /\ fetch[f].delays = <<1000, 2000>>

\* C4: an entry with cache time Duration(d) never stays in the cache for more
\* than d with no live Guard on it.
C4_UnwatchedEntryEvicted ==
    \A k \in AllKeys :
        (entry[k] # NoEntry /\ entry[k].cache_control.dur # None)
        => idle[k] <= entry[k].cache_control.dur[1]

\* C5: the eviction controller never removes an entry that is Active at the
\* moment of removal.
C5_NeverEvictsActive ==
    \A k \in AllKeys : evicted[k] # "active"

ClientView(c) == [q \in Queries |-> entry[<<c, q>>]]

C10_OfflineFirstTriesOnce ==
    \A f \in FetchIds :
        (scn.network_mode = Set("OfflineFirst") /\ fetch[f].phase = "waitOnline")
        => fetch[f].inv >= 1


\* C11: under network mode Online the query function is invoked only in a
\* step that finds connectivity up; a fetch call made while connectivity is
\* down leaves the entry's status Paused, returns NoConnection to its caller
\* and has not invoked the function.
C11_OnlineNeverTriesOffline ==
    [][ScnNetworkMode = "Online" =>
          \A f \in FetchIds :
             /\ fetch'[f].inv > fetch[f].inv => online /\ online'
             /\ (fetch[f].phase = "idle" /\ fetch'[f].phase # "idle" /\ ~online) =>
                   /\ fetch'[f].phase = "waitOnline"
                   /\ fetch'[f].ret = "NoConnection"
                   /\ fetch'[f].inv = 0
                   /\ entry'[fetch'[f].key].data.value.st = "Paused"]_vars

\* C11 witness: under Online a fetch was called offline, paused with
\* NoConnection, and made its one request after connectivity returned.
C11_Witness ==
    \E f \in FetchIds :
        /\ ScnNetworkMode = "Online"
        /\ fetch[f].ret = "NoConnection"
        /\ fetch[f].depth = 1
        /\ Done(f) /\ fetch[f].out = "Fresh"
        /\ fetch[f].inv = 1
        /\ online

\* C12: if connectivity returns for good, every fetch that handed its caller
\* a NoConnection eventually delivers an outcome (Fresh, Stale or Cancelled)
\* into it.
C12_NoConnectionResolves ==
    (<>[]online) =>
        \A f \in FetchIds :
            [](fetch[f].ret = "NoConnection" =>
                 <>(Done(f) /\ fetch[f].out \in {"Fresh", "Stale", "Cancelled"}))

\* C13: once a Guard is dropped its handler is never called again.
C13_DroppedGuardSilent ==
    [][\A g \in GuardIds : guard[g].st = "dropped" => seen'[g] = seen[g]]_vars

\* C14: the eviction controller of an existing entry is Active exactly when
\* at least one Guard subscribed to the entry is alive.
C14_ActiveIffSubscribed ==
    \A k \in AllKeys :
        entry[k] # NoEntry =>
            (entry[k].cache_control.active <=> Subscribers(k) # {})

\* C17: a fetch during which another fetch for the same query and client was
\* initiated does not return Fresh.
C17_FreshOnlyIfLatest ==
    \A a \in FetchIds :
        (Done(a) /\ fetch[a].later # {}) => fetch[a].out # "Fresh"

\* C18: a fetch returns Stale only if another fetch for the same query and
\* client was initiated while it was in progress.
C18_StaleOnlyIfOverlapped ==
    \A a \in FetchIds :
        (Done(a) /\ fetch[a].out = "Stale") => fetch[a].later # {}

\* C19: an entry whose cache time resolves to Infinite has no eviction task,
\* is never removed by the eviction controller, and disappears only in a
\* remove_query step for its pair.
C19_InfiniteNeverEvicted ==
    [][scn.cache_time = Infinite =>
          \A k \in AllKeys :
             /\ evicted'[k] = "no"
             /\ entry'[k] # NoEntry => entry'[k].cache_control.task = NoTask
             /\ (entry[k] # NoEntry /\ entry'[k] = NoEntry) =>
                    last'.call = "remove_query" /\ last'.key = k]_vars

\* C19 witness: under Infinite an entry was fetched, subscribed to and
\* unsubscribed from, and is still in the cache with no Guard alive on it.
C19_Witness ==
    \E k \in AllKeys, g \in GuardIds, f \in FetchIds :
        /\ scn.cache_time = Infinite
        /\ entry[k] # NoEntry
        /\ guard[g].st = "dropped" /\ guard[g].key = k /\ guard[g].eid = entry[k].id
        /\ Done(f) /\ fetch[f].key = k /\ fetch[f].id = entry[k].id
        /\ Subscribers(k) = {}

\* C20 as stated: with no retry config set at any layer, a fetch whose
\* attempts all fail invokes the query function 3 times in total.
C20_ThreeAttempts ==
    \A f \in FetchIds :
        (/\ scn.retry_num = NoRetryOpt
         /\ Done(f) /\ fetch[f].out = "Fresh" /\ ~fetch[f].res.ok)
        => fetch[f].inv = 3

\* C20 amended: with no retry config set at any layer the default applies:
\* 3 retries with backoff from 1s doubling up to 30s, so a fetch whose
\* attempts all fail invokes the query function 4 times in total (never
\* more), sleeps 1000, 2000 and 4000 ms between the attempts and then
\* publishes the terminal error Err(e, Idle).
C20_ThreeRetries ==
    \A f \in FetchIds :
        scn.retry_num = NoRetryOpt =>
            /\ ScnRetry = [policy |-> Num(3), delay |-> Backoff(1000, 30000)]
            /\ fetch[f].inv <= 4
            /\ (Done(f) /\ fetch[f].out = "Fresh" /\ ~fetch[f].res.ok) =>
                  /\ fetch[f].inv = 4
                  /\ fetch[f].delays = <<1000, 2000, 4000>>
                  /\ fetch[f].pub = Some(Err(fetch[f].res.rc, fetch[f].res.val, "Idle"))

\* C20 witness: under the default retry config a fetch has failed four times,
\* its subscriber has seen the terminal error and the cache holds it.
C20_Witness ==
    \E f \in FetchIds, g \in GuardIds :
        /\ scn.retry_num = NoRetryOpt
        /\ Done(f) /\ fetch[f].out = "Fresh" /\ ~fetch[f].res.ok
        /\ fetch[f].inv = 4
        /\ Err(fetch[f].res.rc, fetch[f].res.val, "Idle") \in seen[g]
        /\ entry[fetch[f].key] # NoEntry
        /\ entry[fetch[f].key].data.value = Err(fetch[f].res.rc, fetch[f].res.val, "Idle")

\* C15: query_data returns a copy of the data the cache holds for the query,
\* or None when the cache has no entry for it, and changes nothing: no entry
\* is created, no data, status, id, listener set or Active state changes, no
\* handler is called, no eviction task is started or cancelled and no fetch
\* moves.
C15_QueryDataPure ==
    [][last'.call = "query_data" =>
          /\ last'.ret = (IF entry[last'.key] = NoEntry THEN None
                          ELSE Some(entry[last'.key].data.value))
          /\ UNCHANGED <<entry, fetch, guard, seen, idle, nextId, evicted, online, handler>>]_vars

\* C15 witness: query_data has returned the committed result of a query with
\* a subscriber on it, while the same query has no entry in the other cache.
C15_Witness ==
    /\ last.call = "query_data"
    /\ last.key = link_key("c1", "q1")
    /\ last.ret # None
    /\ last.ret[1].tag = "Ok"
    /\ Subscribers(link_key("c1", "q1")) # {}
    /\ entry[link_key("c2", "q1")] = NoEntry

\* C16: remove_query returns the data of the entry, or None when there is
\* none; after it the (query, cache) pair has no entry and query_data reads
\* None; the entries of every other pair are as they were; and an entry that
\* is missing appears again only by a fetch or a subscribe_query for its pair.
C16_RemoveQuery ==
    [][/\ last'.call = "remove_query" =>
             /\ last'.ret = (IF entry[last'.key] = NoEntry THEN None
                             ELSE Some(entry[last'.key].data.value))
             /\ entry'[last'.key] = NoEntry
             /\ QueryCache_data(entry', last'.key) = None
             /\ \A j \in AllKeys \ {last'.key} : entry'[j] = entry[j]
       /\ \A k \in AllKeys :
             (entry[k] = NoEntry /\ entry'[k] # NoEntry) =>
                \/ \E f \in FetchIds : /\ fetch[f].phase = "idle"
                                        /\ fetch'[f].phase # "idle"
                                        /\ fetch'[f].key = k
                \/ \E g \in GuardIds : /\ guard[g].st = "unused"
                                        /\ guard'[g].st = "live"
                                        /\ guard'[g].key = k]_vars

\* C16 witness: remove_query has returned the committed result of a query and
\* its entry is gone, while the same query in the other cache and the other
\* query in the same cache keep their entries.
C16_Witness ==
    /\ last.call = "remove_query"
    /\ last.key = link_key("c1", "q1")
    /\ last.ret # None
    /\ last.ret[1].tag = "Ok"
    /\ entry[link_key("c1", "q1")] = NoEntry
    /\ entry[link_key("c2", "q1")] # NoEntry
    /\ entry[link_key("c1", "q2")] # NoEntry

\* the listeners of an entry's data, as the Guards that registered them
Listeners(e) == {g \in GuardIds : HeapAddr(g) \in e.data.listeners}

\* a step in which fetch f starts an attempt: its first, a retry after the
\* sleep, or the resumption of its continuation task
AttemptStarts(f) ==
    \/ fetch[f].phase = "idle" /\ fetch'[f].phase # "idle"
    \/ fetch[f].phase = "sleeping" /\ fetch'[f].phase \notin {"sleeping", "aborted"}
    \/ /\ fetch[f].phase = "waitOnline"
       /\ \/ fetch'[f].phase \notin {"waitOnline", "aborted"}
          \/ fetch'[f].depth # fetch[f].depth

\* a step in which the query function of fetch f returns
FunctionReturns(f) ==
    fetch[f].phase = "executing" /\ fetch'[f].phase \notin {"executing", "aborted"}

\* C21: in the step in which a fetch resolves to Fresh(v) the entry's data
\* becomes v (Ok or Err, the same shared value) with status Idle and every
\* listener registered on the entry, so every live subscriber, is called with
\* exactly that value; a Fresh error is the function's error of the last
\* attempt the retry policy allows.
C21_FreshIsPublished ==
    [][\A f \in FetchIds :
          (FunctionReturns(f) /\ fetch'[f].phase = "done" /\ fetch'[f].out = "Fresh") =>
             LET k == fetch[f].key
                 r == fetch'[f].res
                 v == IF r.ok THEN Ok(r.rc, r.val, "Idle") ELSE Err(r.rc, r.val, "Idle")
             IN  /\ r.rc = RcOf(f, fetch[f].count)
                 /\ r.val = (IF r.ok THEN QValue(fetch[f].query) ELSE QError(fetch[f].query))
                 /\ entry'[k] # NoEntry
                 /\ entry'[k].data.value = v
                 /\ Subscribers(k) \subseteq Listeners(entry'[k])
                 /\ \A g \in Listeners(entry'[k]) : v \in seen'[g]
                 /\ ~r.ok => ~retry_delay(ScnRetry, fetch[f].count, FALSE).retry]_vars

\* C21 witness: a fetch has exhausted its retries and returned Fresh(Err(e)),
\* the cache holds Err(e, Idle) and a live subscriber was called with it.
C21_Witness ==
    \E f \in FetchIds, g \in GuardIds :
        /\ scn.retry_num >= 1
        /\ Done(f) /\ fetch[f].ret = "Fresh" /\ ~fetch[f].res.ok
        /\ g \in Subscribers(fetch[f].key)
        /\ entry[fetch[f].key].data.value = Err(fetch[f].res.rc, QError(fetch[f].query), "Idle")
        /\ Err(fetch[f].res.rc, QError(fetch[f].query), "Idle") \in seen[g]

\* C26: when the query function of a fetch returns and the entry is absent or
\* carries another id, the step changes no entry, calls no handler, issues no
\* id and schedules no retry even for an error; the fetch resolves to Stale
\* with the function's own result.
C26_StaleCommitLeavesCache ==
    [][\A f \in FetchIds :
          (/\ FunctionReturns(f)
           /\ \/ entry[fetch[f].key] = NoEntry
              \/ entry[fetch[f].key].id # fetch[f].id) =>
             /\ entry' = entry
             /\ seen' = seen
             /\ nextId' = nextId
             /\ fetch'[f].phase = "done"
             /\ fetch'[f].out = "Stale"
             /\ fetch'[f].res.rc = RcOf(f, fetch[f].count)
             /\ fetch'[f].res.val =
                   (IF fetch'[f].res.ok THEN QValue(fetch[f].query) ELSE QError(fetch[f].query))
             /\ fetch'[f].delays = fetch[f].delays]_vars

\* C26 witness: under a policy that would retry, a fetch whose entry was
\* removed and created again returned Stale with its error, and the new entry
\* does not hold that error.
C26_Witness ==
    \E f \in FetchIds :
        /\ scn.retry_num >= 1
        /\ Done(f) /\ fetch[f].out = "Stale" /\ ~fetch[f].res.ok
        /\ fetch[f].inv = 1 /\ fetch[f].delays = <<>>
        /\ entry[fetch[f].key] # NoEntry
        /\ entry[fetch[f].key].id # fetch[f].id
        /\ entry[fetch[f].key].data.value.rc # fetch[f].res.rc

\* C27: an attempt that starts with the entry absent or carrying another id
\* resolves to Cancelled without invoking the query function, changing an
\* entry or calling a handler; Cancelled arises in no other way, and never
\* on the first attempt.
C27_SupersededAttemptCancelled ==
    [][\A f \in FetchIds :
          /\ (/\ AttemptStarts(f)
              /\ fetch[f].phase # "idle"
              /\ \/ entry[fetch[f].key] = NoEntry
                 \/ entry[fetch[f].key].id # fetch[f].id) =>
                /\ fetch'[f].phase = "done"
                /\ fetch'[f].out = "Cancelled"
                /\ fetch'[f].inv = fetch[f].inv
                /\ entry' = entry
                /\ seen' = seen
          /\ (fetch'[f].out = "Cancelled" /\ fetch[f].out # "Cancelled") =>
                /\ fetch[f].phase \in {"sleeping", "waitOnline"}
                /\ \/ entry[fetch[f].key] = NoEntry
                   \/ entry[fetch[f].key].id # fetch[f].id]_vars

\* C27 witness: a fetch was cancelled at its retry after one invocation.
C27_Witness ==
    \E f \in FetchIds :
        /\ Done(f) /\ fetch[f].out = "Cancelled" /\ fetch[f].ret = "Cancelled"
        /\ fetch[f].inv = 1
        /\ Len(fetch[f].delays) = 1

C29_AlwaysNeverPaused ==
    \A k \in AllKeys :
        (ScnNetworkMode = "Always" /\ entry[k] # NoEntry) =>
            entry[k].data.value.st # "Paused"

\* C30: the start of an attempt that passes the id check leaves the entry's
\* data with its payload (variant, shared value) and with the loading status
\* of the connectivity it found; when the status was already that one no
\* handler is called, and when it changed every listener of the entry is
\* called with the new data.
C30_PublishLoadingIdempotent ==
    [][\A f \in FetchIds :
          (/\ AttemptStarts(f)
           /\ fetch'[f].phase \in {"executing", "waitOnline"}) =>
             LET k == fetch'[f].key
                 old == IF entry[k] = NoEntry THEN QueryData_default(online)
                        ELSE entry[k].data.value
                 new == entry'[k].data.value
             IN  /\ new.tag = old.tag /\ new.rc = old.rc /\ new.val = old.val
                 /\ new.st = (IF online THEN "Loading" ELSE "Paused")
                 /\ old.st = new.st => seen' = seen
                 /\ old.st # new.st =>
                       \A g \in GuardIds :
                          seen'[g] = IF g \in Listeners(entry'[k])
                                     THEN seen[g] \cup {new} ELSE seen[g]]_vars

\* C30 witness: a subscriber was called with a cached Ok result whose status
\* had turned to Loading, and a retry of the fetch then started and found the
\* status already Loading.
C30_Witness ==
    \E g \in GuardIds, f \in FetchIds :
        /\ fetch[f].phase = "executing"
        /\ Len(fetch[f].delays) >= 1
        /\ g \in Subscribers(fetch[f].key)
        /\ entry[fetch[f].key].data.value.tag = "Ok"
        /\ entry[fetch[f].key].data.value.st = "Loading"
        /\ entry[fetch[f].key].data.value \in seen[g]

(***************************************************************************)
(* listenable.rs on its own: one Listenable<T>, the listeners added to it  *)
(* and every call each listener received, in order.                        *)
(***************************************************************************)
MaxListeners == 2
MaxCellValue == 1
MaxCellOps == 4

ListenerIds == 1..MaxListeners
CellValues == 0..MaxCellValue
\* the closures handed to modify: each maps the value it finds to another
ModifyFuncs == [CellValues -> CellValues]

\* Listenable::notify: each listener in the set is called once with a clone
\* of the value
Listenable_notify(l, calls) ==
    [i \in ListenerIds |->
        IF HeapAddr(i) \in l.listeners THEN Append(calls[i], l.value) ELSE calls[i]]

\* Listenable::set: mem::replace, notify, the replaced value is returned
Listenable_set(l, calls, value) ==
    LET this == [l EXCEPT !.value = value]
    IN  [l |-> this, calls |-> Listenable_notify(this, calls), ret |-> Some(l.value)]

\* Listenable::modify: the closure changes the value in place, notify
Listenable_modify(l, calls, func) ==
    LET this == [l EXCEPT !.value = func[l.value]]
    IN  [l |-> this, calls |-> Listenable_notify(this, calls), ret |-> None]

\* a mutated set_cmp: it sets whether or not the value differs
Listenable_set_cmp_always(l, calls, value) == Listenable_set(l, calls, value)

\* Listenable::set_cmp: (this.value != value).then(|| Self::set(this, value))
Listenable_set_cmp(l, calls, value) ==
    IF l.value # value THEN Listenable_set(l, calls, value)
    ELSE [l |-> l, calls |-> calls, ret |-> None]

\* the call a step made on the cell
CellStep(c, op, arg, r) ==
    [l |-> r.l, calls |-> r.calls, ret |-> r.ret, op |-> op, arg |-> arg,
     added |-> c.added, ops |-> c.ops + 1]

CellAddListener(i) ==
    /\ cell.ops < MaxCellOps
    /\ i \notin cell.added
    /\ cell' = [CellStep(cell, "add_listener", i,
                         [l |-> add_listener(cell.l, i).l, calls |-> cell.calls, ret |-> None])
                  EXCEPT !.added = @ \cup {i}]
    /\ UNCHANGED <<pureVars, regVars, engVars, fh, mu, ssr, ctl, oh>>

CellRemoveListener(i) ==
    /\ cell.ops < MaxCellOps
    /\ i \in cell.added
    /\ LET r == remove_listener(cell.l, add_listener(cell.l, i).handle)
       IN  cell' = CellStep(cell, "remove_listener", i,
                            [l |-> r.l, calls |-> cell.calls, ret |-> Some(r.len)])
    /\ UNCHANGED <<pureVars, regVars, engVars, fh, mu, ssr, ctl, oh>>

CellSet(v) ==
    /\ cell.ops < MaxCellOps
    /\ cell' = CellStep(cell, "set", v, Listenable_set(cell.l, cell.calls, v))
    /\ UNCHANGED <<pureVars, regVars, engVars, fh, mu, ssr, ctl, oh>>

CellModify(func) ==
    /\ cell.ops < MaxCellOps
    /\ cell' = CellStep(cell, "modify", func, Listenable_modify(cell.l, cell.calls, func))
    /\ UNCHANGED <<pureVars, regVars, engVars, fh, mu, ssr, ctl, oh>>

CellSetCmp(v) ==
    /\ cell.ops < MaxCellOps
    /\ cell' = CellStep(cell, "set_cmp", v, Listenable_set_cmp(cell.l, cell.calls, v))
    /\ UNCHANGED <<pureVars, regVars, engVars, fh, mu, ssr, ctl, oh>>

InitListenable ==
    /\ PureIdle
    /\ RegIdle
    /\ EngIdle
    /\ HandleIdle /\ MutateIdle /\ SsrIdle /\ CtlIdle /\ OhIdle
    /\ \E v \in CellValues :
          cell = [l |-> Listenable_new(v), calls |-> [i \in ListenerIds |-> <<>>],
                  ret |-> None, op |-> "new", arg |-> v, added |-> {}, ops |-> 0]

NextListenable ==
    \/ \E i \in ListenerIds : CellAddListener(i)
    \/ \E i \in ListenerIds : CellRemoveListener(i)
    \/ \E v \in CellValues : CellSet(v)
    \/ \E func \in ModifyFuncs : CellModify(func)
    \/ \E v \in CellValues : CellSetCmp(v)

SpecListenable == InitListenable /\ [][NextListenable]_vars

\* what a notifying call adds: one call with the cell's new value for every
\* listener registered when the call is made, nothing for anybody else
NotifiedOnce ==
    \A i \in ListenerIds :
        cell'.calls[i] = IF HeapAddr(i) \in cell.l.listeners
                         THEN Append(cell.calls[i], cell'.l.value)
                         ELSE cell.calls[i]

\* C22: set and modify call every registered listener exactly once with the
\* new value, also when it equals the old one, and set returns the previous
\* value; set_cmp with an equal value changes nothing, calls nobody and
\* returns None, and with a different value does what set does.
C22_SetNotifiesSetCmpCompares ==
    [][/\ (cell'.ops # cell.ops /\ cell'.op = "set") =>
             /\ cell'.l.value = cell'.arg
             /\ cell'.l.listeners = cell.l.listeners
             /\ NotifiedOnce
             /\ cell'.ret = Some(cell.l.value)
       /\ (cell'.ops # cell.ops /\ cell'.op = "modify") =>
             /\ cell'.l.value = cell'.arg[cell.l.value]
             /\ cell'.l.listeners = cell.l.listeners
             /\ NotifiedOnce
       /\ (cell'.ops # cell.ops /\ cell'.op = "set_cmp") =>
             IF cell'.arg = cell.l.value
             THEN /\ cell'.l = cell.l
                  /\ cell'.calls = cell.calls
                  /\ cell'.ret = None
             ELSE /\ cell'.l.value = cell'.arg
                  /\ cell'.l.listeners = cell.l.listeners
                  /\ NotifiedOnce
                  /\ cell'.ret = Some(cell.l.value)]_vars

\* C22 witness: a listener was called twice in a row with the same value (a
\* set or modify that did not change it), and the call just made was a
\* set_cmp with the value the cell already held.
C22_Witness ==
    /\ cell.op = "set_cmp" /\ cell.arg = cell.l.value /\ cell.ret = None
    /\ \E i \in ListenerIds :
          /\ HeapAddr(i) \in cell.l.listeners
          /\ Len(cell.calls[i]) = 2
          /\ cell.calls[i][1] = cell.calls[i][2]
          /\ cell.calls[i][2] = cell.l.value

(***************************************************************************)
(* futures/future_handle.rs on its own: one future spawned with            *)
(* spawn_local_handle, the FutureHandle returned for it and the cleanup    *)
(* callbacks added through its CleanupHandle.                              *)
(***************************************************************************)
MaxCleanups == 3
MaxFutureSteps == 2

CleanupIds == 1..MaxCleanups

\* the loop over CleanupState::cleanup: each callback in the Vec is called
run_cleanups(runs, cleanup) ==
    [c \in CleanupIds |->
        runs[c] + Cardinality({n \in 1..Len(cleanup) : cleanup[n] = c})]

\* spawn_local_handle: the state is created, the wrapped future is made
\* abortable and spawned
spawn_local_handle ==
    /\ fh.task = "none"
    /\ fh' = [fh EXCEPT !.task = "spawned"]
    /\ UNCHANGED <<pureVars, regVars, engVars, cell, mu, ssr, ctl, oh>>

\* the executor polls the task and `f` reaches its next await
HandlePoll ==
    /\ fh.task = "spawned"
    /\ fh.steps < MaxFutureSteps
    /\ fh' = [fh EXCEPT !.steps = @ + 1]
    /\ UNCHANGED <<pureVars, regVars, engVars, cell, mu, ssr, ctl, oh>>

\* the executor polls the task and `f` completes: done is set and the
\* callbacks are called
HandleComplete ==
    /\ fh.task = "spawned"
    /\ fh' = [fh EXCEPT !.task = "completed",
                        !.done = TRUE,
                        !.runs = run_cleanups(fh.runs, fh.cleanup)]
    /\ UNCHANGED <<pureVars, regVars, engVars, cell, mu, ssr, ctl, oh>>

\* CleanupHandle::add_cleanup: called at once if the future is done, kept
\* in the Vec otherwise
add_cleanup(c) ==
    /\ fh.task # "none"
    /\ c \notin fh.registered
    /\ fh' = IF fh.done
             THEN [fh EXCEPT !.registered = @ \cup {c}, !.runs[c] = @ + 1]
             ELSE [fh EXCEPT !.registered = @ \cup {c}, !.cleanup = Append(@, c)]
    /\ UNCHANGED <<pureVars, regVars, engVars, cell, mu, ssr, ctl, oh>>

\* Drop for FutureHandle: self.handle.abort(); a task that has not completed
\* is never polled again
DropFutureHandle ==
    /\ fh.task # "none"
    /\ ~fh.dropped
    /\ fh' = [fh EXCEPT !.dropped = TRUE,
                        !.task = IF @ = "spawned" THEN "aborted" ELSE @]
    /\ UNCHANGED <<pureVars, regVars, engVars, cell, mu, ssr, ctl, oh>>

InitHandle ==
    /\ PureIdle
    /\ RegIdle
    /\ EngIdle
    /\ CellIdle /\ MutateIdle /\ SsrIdle /\ CtlIdle /\ OhIdle
    /\ fh = [task |-> "none", steps |-> 0, done |-> FALSE, cleanup |-> <<>>,
             registered |-> {}, runs |-> [c \in CleanupIds |-> 0], dropped |-> FALSE]

NextHandle ==
    \/ spawn_local_handle
    \/ HandlePoll
    \/ HandleComplete
    \/ \E c \in CleanupIds : add_cleanup(c)
    \/ DropFutureHandle

SpecHandle == InitHandle /\ [][NextHandle]_vars

C23_AbortedStops ==
    [][fh.task = "aborted" =>
          /\ fh'.task = "aborted"
          /\ fh'.steps = fh.steps
          /\ fh'.done = fh.done
          /\ fh'.runs = fh.runs]_vars

(***************************************************************************)
(* QueryClient::mutate: one call, with the callbacks built for it.  The    *)
(* crate compiles mutate twice, for wasm32 and for every other target.     *)
(***************************************************************************)
MaxMutateValue == 1

Builds == {"wasm32", "engine"}
Hooks == {"on_mutate", "on_success", "on_error", "on_settled"}
MutateValues == 0..MaxMutateValue

\* what a panicking call leaves behind: nothing is returned
Panicked(m, msg) == [m EXCEPT !.st = "panicked", !.panic = msg]

\* client.rs new_mutate_meta: todo!()
new_mutate_meta(m) == Panicked(m, "not yet implemented")

\* MutationCallbacks::on_success / on_error / on_settled / on_mutate: the
\* builder stores the callback
MutationCallbacks_on(h) ==
    /\ mu.st = "idle"
    /\ h \notin mu.cb
    /\ mu' = [mu EXCEPT !.cb = @ \cup {h}]
    /\ UNCHANGED <<pureVars, regVars, engVars, cell, fh, ssr, ctl, oh>>

\* mutate, built for a target other than wasm32
mutate_engine ==
    /\ mu.st = "idle"
    /\ mu.build = "engine"
    /\ mu' = Panicked(mu, "Should not mutate on the engine")
    /\ UNCHANGED <<pureVars, regVars, engVars, cell, fh, ssr, ctl, oh>>

\* mutate, built for wasm32: with_or_else finds the row of the mutation
\* vacant and calls new_mutate_meta for it; past that call the body is
\* todo!()
mutate ==
    /\ mu.st = "idle"
    /\ mu.build = "wasm32"
    /\ mu' = IF mu.row THEN Panicked(mu, "not yet implemented")
             ELSE new_mutate_meta(mu)
    /\ UNCHANGED <<pureVars, regVars, engVars, cell, fh, ssr, ctl, oh>>

InitMutate ==
    /\ PureIdle
    /\ RegIdle
    /\ EngIdle
    /\ CellIdle /\ HandleIdle /\ SsrIdle /\ CtlIdle /\ OhIdle
    /\ \E b \in Builds, v \in MutateValues, ok \in BOOLEAN :
          mu = [build |-> b, value |-> v, succeeds |-> ok, cb |-> {}, row |-> FALSE,
                st |-> "idle", panic |-> "", invoked |-> FALSE, hooks |-> <<>>,
                ret |-> None]

NextMutate ==
    \/ \E h \in Hooks : MutationCallbacks_on(h)
    \/ mutate_engine
    \/ mutate

SpecMutate == InitMutate /\ [][NextMutate]_vars

\* the callbacks the claim expects for a call, in order
ExpectedHooks(m) ==
    LET want == <<"on_mutate", IF m.succeeds THEN "on_success" ELSE "on_error", "on_settled">>
    IN  SelectSeq(want, LAMBDA h : h \in m.cb)

MaxCallers == 2
MaxSsrCalls == 3
\* mpsc::channel(1)
ChanCap == 1

Callers == 1..MaxCallers

\* tokio Notify as `with` uses it: a stored permit, and the one Notified
\* future that may be registered as waiter and woken
Notify_new == [permit |-> FALSE, waiter |-> FALSE, woken |-> FALSE]

\* a mutated notification, Notify::notify_waiters: it wakes the registered
\* waiter and stores no permit
Notify_notify_waiters(n) ==
    IF n.waiter THEN [n EXCEPT !.waiter = FALSE, !.woken = TRUE] ELSE n

\* Notify::notify_one: wakes the waiter if there is one, stores a permit
\* otherwise
Notify_notify_one(n) ==
    IF n.waiter THEN [n EXCEPT !.waiter = FALSE, !.woken = TRUE]
    ELSE [n EXCEPT !.permit = TRUE]

\* the first poll of notify.notified(): takes the permit if there is one,
\* registers as waiter otherwise
Notified_poll(n) ==
    IF n.permit THEN [ready |-> TRUE, n |-> [n EXCEPT !.permit = FALSE]]
    ELSE [ready |-> FALSE, n |-> [n EXCEPT !.waiter = TRUE]]

\* SsrQueryClient::with, to the end of tx.send(..).await: the Notify is
\* created and the request is in the channel
WithSend(c) ==
    /\ ssr.pc[c] = "idle"
    /\ ssr.calls < MaxSsrCalls
    /\ Len(ssr.chan) < ChanCap
    /\ ssr' = [ssr EXCEPT !.pc[c] = "sent",
                          !.calls = @ + 1,
                          !.notify[c] = Notify_new,
                          !.chan = Append(@, [kind |-> "With", caller |-> c])]
    /\ UNCHANGED <<pureVars, regVars, engVars, cell, fh, mu, ctl, oh>>

\* SsrQueryClient::with: notify.notified().await is polled for the first time
WithNotified(c) ==
    /\ ssr.pc[c] = "sent"
    /\ LET p == Notified_poll(ssr.notify[c])
       IN  ssr' = IF p.ready
                  THEN [ssr EXCEPT !.pc[c] = "idle", !.notify[c] = p.n,
                                   !.returned[c] = @ + 1, !.how[c] = "permit"]
                  ELSE [ssr EXCEPT !.pc[c] = "waiting", !.notify[c] = p.n]
    /\ UNCHANGED <<pureVars, regVars, engVars, cell, fh, mu, ctl, oh>>

\* SsrQueryClient::with: the waiting caller is woken and returns
WithWake(c) ==
    /\ ssr.pc[c] = "waiting"
    /\ ssr.notify[c].woken
    /\ ssr' = [ssr EXCEPT !.pc[c] = "idle", !.returned[c] = @ + 1, !.how[c] = "wake"]
    /\ UNCHANGED <<pureVars, regVars, engVars, cell, fh, mu, ctl, oh>>

\* SsrQueryClient::dehydrate, to the end of tx.send(..).await
DehydrateSend(c) ==
    /\ ssr.pc[c] = "idle"
    /\ ssr.calls < MaxSsrCalls
    /\ Len(ssr.chan) < ChanCap
    /\ ssr' = [ssr EXCEPT !.pc[c] = "dehydrating",
                          !.calls = @ + 1,
                          !.oneshot[c] = None,
                          !.chan = Append(@, [kind |-> "Dehydrate", caller |-> c])]
    /\ UNCHANGED <<pureVars, regVars, engVars, cell, fh, mu, ctl, oh>>

\* SsrQueryClient::dehydrate: rx.await receives the answer
DehydrateRecv(c) ==
    /\ ssr.pc[c] = "dehydrating"
    /\ ssr.oneshot[c] # None
    /\ ssr' = [ssr EXCEPT !.pc[c] = "idle"]
    /\ UNCHANGED <<pureVars, regVars, engVars, cell, fh, mu, ctl, oh>>

\* the client thread's loop: rx.recv() yields a request; a With is spawned as
\* a local task, a Dehydrate is answered through its oneshot
ClientRecv ==
    /\ ssr.chan # <<>>
    /\ LET req == Head(ssr.chan)
       IN  ssr' = IF req.kind = "With"
                  THEN [ssr EXCEPT !.chan = Tail(@), !.task[req.caller] = "spawned"]
                  ELSE [ssr EXCEPT !.chan = Tail(@), !.oneshot[req.caller] = Some("TODO")]
    /\ UNCHANGED <<pureVars, regVars, engVars, cell, fh, mu, ctl, oh>>

\* the spawned task is polled and the future returned by f is still pending
TaskPending(c) ==
    /\ ssr.task[c] = "spawned"
    /\ ssr' = [ssr EXCEPT !.task[c] = "pending"]
    /\ UNCHANGED <<pureVars, regVars, engVars, cell, fh, mu, ctl, oh>>

\* the spawned task is polled, the future returned by f completes and the
\* task calls with.notify.notify_one()
TaskComplete(c) ==
    /\ ssr.task[c] \in {"spawned", "pending"}
    /\ ssr' = [ssr EXCEPT !.task[c] = "none",
                          !.completed[c] = @ + 1,
                          !.notify[c] = Notify_notify_one(@)]
    /\ UNCHANGED <<pureVars, regVars, engVars, cell, fh, mu, ctl, oh>>

InitSsr ==
    /\ PureIdle
    /\ RegIdle
    /\ EngIdle
    /\ CellIdle /\ HandleIdle /\ MutateIdle /\ CtlIdle /\ OhIdle
    /\ ssr = [chan |-> <<>>,
              pc |-> [c \in Callers |-> "idle"],
              calls |-> 0,
              notify |-> [c \in Callers |-> Notify_new],
              oneshot |-> [c \in Callers |-> None],
              task |-> [c \in Callers |-> "none"],
              completed |-> [c \in Callers |-> 0],
              returned |-> [c \in Callers |-> 0],
              how |-> [c \in Callers |-> "none"]]

NextSsr ==
    \/ \E c \in Callers : WithSend(c)
    \/ \E c \in Callers : WithNotified(c)
    \/ \E c \in Callers : WithWake(c)
    \/ \E c \in Callers : DehydrateSend(c)
    \/ \E c \in Callers : DehydrateRecv(c)
    \/ ClientRecv
    \/ \E c \in Callers : TaskPending(c)
    \/ \E c \in Callers : TaskComplete(c)

\* a caller that awaits its call keeps polling it, and the client thread's
\* runtime keeps polling its receive loop; whether the future returned by f
\* ever completes is up to f
SpecSsr ==
    /\ InitSsr
    /\ [][NextSsr]_vars
    /\ \A c \in Callers : WF_vars(WithNotified(c)) /\ WF_vars(WithWake(c))
    /\ \A c \in Callers : WF_vars(DehydrateRecv(c))
    /\ WF_vars(ClientRecv)

\* C25: a with call returns only in a step before which the future of that
\* very call has completed on the client thread, and every completed future
\* is followed by the return of its call.
C25_WithReturnsAfterCompletion ==
    /\ [][\A c \in Callers :
             ssr'.returned[c] # ssr.returned[c] =>
                /\ ssr'.returned[c] = ssr.returned[c] + 1
                /\ ssr.completed[c] = ssr'.returned[c]
                /\ ssr.task[c] = "none"]_vars
    /\ \A c \in Callers :
          (ssr.completed[c] > ssr.returned[c]) ~> (ssr.returned[c] = ssr.completed[c])

\* C25 witness: with two calls in flight, one caller returned through the
\* permit stored before it first polled (its future completed first) and the
\* other was woken while it waited.
C25_Witness ==
    \E c1, c2 \in Callers :
        /\ ssr.how[c1] = "permit" /\ ssr.returned[c1] >= 1
        /\ ssr.how[c2] = "wake" /\ ssr.returned[c2] >= 1

(***************************************************************************)
(* cache.rs on its own: one CacheControl with a cache time of CtlDur       *)
(* ticks, every eviction task it ever spawned, and the FutureHandle kept   *)
(* in fut_handle.                                                          *)
(***************************************************************************)
CtlDur == 2
MaxTimers == 3

TimerIds == 1..MaxTimers

\* the tasks that still have something to do
Pending(tasks) ==
    {i \in 1..Len(tasks) : tasks[i].st \in {"spawned", "waiting"}}

\* Drop for FutureHandle, as fut_handle.set(Some(handle)) drops the handle
\* held before: the task it belongs to is aborted
abort_held(c) ==
    IF c.held # 0 /\ c.held \in Pending(c.tasks)
    THEN [c EXCEPT !.tasks[c.held].st = "aborted"]
    ELSE c

\* a mutated closure: the new handle is not stored, the earlier task lives on
ctl_handle_active_keeps_task(c, new_active) ==
    IF new_active
    THEN [c EXCEPT !.flag = TRUE,
                   !.tasks = [i \in 1..Len(c.tasks) |->
                                IF c.tasks[i].st = "waiting"
                                THEN [c.tasks[i] EXCEPT !.notified = TRUE]
                                ELSE c.tasks[i]]]
    ELSE [c EXCEPT !.flag = FALSE,
                   !.tasks = Append(c.tasks, SpawnedTask),
                   !.held = Len(c.tasks) + 1,
                   !.since = 0]

\* the closure handle_active: activation sets the flag and notifies the
\* waiters; deactivation spawns a task and stores its handle in fut_handle,
\* which drops the handle stored before
ctl_handle_active(c, new_active) ==
    IF new_active
    THEN [c EXCEPT !.flag = TRUE,
                   !.tasks = [i \in 1..Len(c.tasks) |->
                                IF c.tasks[i].st = "waiting"
                                THEN [c.tasks[i] EXCEPT !.notified = TRUE]
                                ELSE c.tasks[i]]]
    ELSE [abort_held(c) EXCEPT !.flag = FALSE,
                               !.tasks = Append(abort_held(c).tasks, SpawnedTask),
                               !.held = Len(c.tasks) + 1,
                               !.since = 0]

\* CacheControl::set_active: set_cmp on the Listenable, whose one listener
\* is handle_active
CtlSetActive(b) ==
    /\ ~ctl.removed
    /\ ctl.active # b
    /\ b \/ Len(ctl.tasks) < MaxTimers
    /\ ctl' = ctl_handle_active([ctl EXCEPT !.active = b,
                                             !.broken = b /\ ctl.since < CtlDur], b)
    /\ UNCHANGED <<pureVars, regVars, engVars, cell, fh, mu, ssr, oh>>

\* the first poll of an eviction task: it ends if the flag is set, and
\* starts its sleep of the whole cache time otherwise
CtlTimerStart(i) ==
    /\ i \in 1..Len(ctl.tasks)
    /\ ctl.tasks[i].st = "spawned"
    /\ ctl' = [ctl EXCEPT !.tasks[i] =
                  IF ctl.flag THEN [@ EXCEPT !.st = "done"]
                  ELSE [st |-> "waiting", rem |-> CtlDur, notified |-> FALSE]]
    /\ UNCHANGED <<pureVars, regVars, engVars, cell, fh, mu, ssr, oh>>

\* select! takes the sleep branch: remove_cacheable removes the row, and the
\* CacheControl is dropped with it
CtlTimerFire(i) ==
    /\ i \in 1..Len(ctl.tasks)
    /\ ctl.tasks[i].st = "waiting"
    /\ ctl.tasks[i].rem = 0
    /\ ctl' = [abort_held([ctl EXCEPT !.tasks[i].st = "done"])
                  EXCEPT !.removed = TRUE,
                         !.evicted = Some([since |-> ctl.since, active |-> ctl.active,
                                           broken |-> ctl.broken])]
    /\ UNCHANGED <<pureVars, regVars, engVars, cell, fh, mu, ssr, oh>>

\* select! takes the notified branch and the loop tests the flag
CtlTimerNotified(i) ==
    /\ i \in 1..Len(ctl.tasks)
    /\ ctl.tasks[i].st = "waiting"
    /\ ctl.tasks[i].notified
    /\ ctl' = [ctl EXCEPT !.tasks[i] =
                  IF ctl.flag THEN [@ EXCEPT !.st = "done"]
                  ELSE [@ EXCEPT !.notified = FALSE]]
    /\ UNCHANGED <<pureVars, regVars, engVars, cell, fh, mu, ssr, oh>>

\* the row is removed by somebody else (remove_query): the CacheControl is
\* dropped, and fut_handle with it
CtlRemove ==
    /\ ~ctl.removed
    /\ ctl' = [abort_held(ctl) EXCEPT !.removed = TRUE]
    /\ UNCHANGED <<pureVars, regVars, engVars, cell, fh, mu, ssr, oh>>

CtlRunnable(t) ==
    \/ t.st = "spawned"
    \/ t.st = "waiting" /\ (t.rem = 0 \/ t.notified)

\* one unit of time passes; a task that can run is polled before time moves on
CtlTick ==
    /\ ~ctl.removed
    /\ \A i \in 1..Len(ctl.tasks) : ~CtlRunnable(ctl.tasks[i])
    /\ ctl.since <= CtlDur
    /\ ctl' = [ctl EXCEPT !.since = @ + 1,
                          !.tasks = [i \in 1..Len(ctl.tasks) |->
                                       IF ctl.tasks[i].st = "waiting"
                                       THEN [ctl.tasks[i] EXCEPT !.rem = @ - 1]
                                       ELSE ctl.tasks[i]]]
    /\ UNCHANGED <<pureVars, regVars, engVars, cell, fh, mu, ssr, oh>>

\* CacheControl::new with CacheTime::Duration: inactive, handle_active(false)
\* has been called once
InitControl ==
    /\ PureIdle
    /\ RegIdle
    /\ EngIdle
    /\ CellIdle /\ HandleIdle /\ MutateIdle /\ SsrIdle /\ OhIdle
    /\ ctl = [active |-> FALSE, flag |-> FALSE, tasks |-> <<SpawnedTask>>, held |-> 1,
              since |-> 0, broken |-> FALSE, removed |-> FALSE, evicted |-> None]

NextControl ==
    \/ \E b \in BOOLEAN : CtlSetActive(b)
    \/ \E i \in TimerIds : CtlTimerStart(i)
    \/ \E i \in TimerIds : CtlTimerFire(i)
    \/ \E i \in TimerIds : CtlTimerNotified(i)
    \/ CtlRemove
    \/ CtlTick

SpecControl == InitControl /\ [][NextControl]_vars

\* C31: at every moment at most one eviction task of the entry is pending;
\* a step from Active to Inactive leaves none of the earlier tasks pending
\* and spawns one, which sleeps for the whole cache time; and the entry is
\* evicted only when the whole cache time has passed since its most recent
\* deactivation with no activation in between.
C31_OneTimerFullDuration ==
    /\ [](Cardinality(Pending(ctl.tasks)) <= 1)
    /\ [][/\ (ctl.active /\ ~ctl'.active) =>
                /\ Pending(ctl'.tasks) = {Len(ctl.tasks) + 1}
                /\ ctl'.held = Len(ctl.tasks) + 1
                /\ ctl'.tasks[ctl'.held].st = "spawned"
          /\ \A i \in 1..Len(ctl.tasks) :
                (ctl.tasks[i].st = "spawned" /\ ctl'.tasks[i].st = "waiting") =>
                   ctl'.tasks[i].rem = CtlDur
          /\ (ctl.evicted = None /\ ctl'.evicted # None) =>
                /\ ctl.since >= CtlDur
                /\ ~ctl.broken]_vars

\* C31 witness: the entry was activated and deactivated again while its
\* first timer ran; that timer was cancelled, and the entry was evicted by
\* the second timer a whole cache time after the second deactivation.
C31_Witness ==
    /\ Len(ctl.tasks) >= 2
    /\ ctl.tasks[1].st = "aborted"
    /\ ctl.tasks[1].rem < CtlDur
    /\ ctl.evicted # None
    /\ ctl.tasks[2].st = "done" /\ ctl.tasks[2].rem = 0

\* C32: the drop of a Target removes from every WeakLink the row keyed by
\* that Target and no other row, and leaves the registrations of the other
\* Targets and the WeakLinks themselves alone; the drop of a WeakLink removes
\* its own rows and its own registrations and leaves the rows of the other
\* WeakLinks, their registrations and the Targets alone.
C32_TeardownIsLocal ==
    [][/\ \A t \in TargetIds :
             (tstate[t] = "alive" /\ tstate'[t] = "dead") =>
                /\ \A l \in LinkIds : rows'[l] = rows[l] \ {t}
                /\ \A s \in TargetIds \ {t} : reg'[s] = reg[s] /\ tstate'[s] = tstate[s]
                /\ lstate' = lstate
       /\ \A l \in LinkIds :
             (lstate[l] = "alive" /\ lstate'[l] = "dead") =>
                /\ rows'[l] = {}
                /\ \A k \in LinkIds \ {l} : rows'[k] = rows[k] /\ lstate'[k] = lstate[k]
                /\ \A t \in TargetIds : reg'[t] \ {l} = reg[t] \ {l}
                /\ tstate' = tstate]_vars

\* C32 witness: two links held rows for two targets; one target and one link
\* were dropped, and the other link still holds its row for the other target
\* and is still registered with it.
C32_Witness ==
    \E l, k \in LinkIds, t, s \in TargetIds :
        /\ l # k /\ t # s
        /\ tstate[t] = "dead" /\ lstate[k] = "dead"
        /\ <<l, t>> \in hadRow
        /\ lstate[l] = "alive" /\ tstate[s] = "alive"
        /\ s \in rows[l] /\ l \in reg[s]

\* C33: no Target's set of registered links holds a WeakLink that has been
\* dropped.
C33_DroppedLinkUnregistered ==
    \A l \in LinkIds, t \in TargetIds :
        (lstate[l] = "dead" /\ tstate[t] = "alive") => l \notin reg[t]

\* C34: while an attempt of a fetch issued for an entry is executing the
\* query function or waiting for a retry delay, the status cached in that
\* entry is Loading or Paused, never Idle.
C34_IdleMeansQuiet ==
    \A f \in FetchIds :
        LET k == fetch[f].key
        IN  (/\ fetch[f].phase \in {"executing", "sleeping"}
             /\ entry[k] # NoEntry
             /\ entry[k].id = fetch[f].id) =>
                entry[k].data.value.st \in {"Loading", "Paused"}

(***************************************************************************)
(* atomic_id.rs with the rows that take their ids from it: rows are        *)
(* created and removed while the counter is at its start or close to       *)
(* usize::MAX, where an early row may still exist.                         *)
(***************************************************************************)
MaxIdsBelowMax == 2

\* where the counter stands when the check begins
IdStarts == {0} \cup {UsizeMax - j : j \in 0..MaxIdsBelowMax}
\* the values the counter may take during the check
IdWindow == {UsizeMax - j : j \in 0..MaxIdsBelowMax} \cup 0..(MaxIds - 1)

\* a row is created for the key: new_fetch_meta takes atomic_id::next()
IdCreate(k) ==
    /\ entry[k] = NoEntry
    /\ nextId \in IdWindow
    /\ entry' = with_or_else(entry, k, new_fetch_meta(scn, online, nextId))
    /\ nextId' = atomic_id_next(nextId)
    /\ UNCHANGED <<scn, online, handler, fetch, guard, seen, idle, evicted, last,
                   pureVars, regVars, cmpVars>>

\* the row of the key is removed
IdRemove(k) ==
    /\ entry[k] # NoEntry
    /\ entry' = remove_inner(entry, k).rows
    /\ UNCHANGED <<scn, online, handler, nextId, fetch, guard, seen, idle, evicted, last,
                   pureVars, regVars, cmpVars>>

\* the counter at 0 with no row, or close to usize::MAX with at most one
\* row left from the time the counter was small
InitAtomicId ==
    /\ PureIdle
    /\ RegIdle
    /\ CmpIdle
    /\ scn = NoScenario
    /\ online = TRUE
    /\ last = NoCall
    /\ handler = "absent"
    /\ fetch = [f \in FetchIds |-> IdleFetch]
    /\ guard = [g \in GuardIds |-> UnusedGuard]
    /\ seen = [g \in GuardIds |-> {}]
    /\ idle = [k \in AllKeys |-> 0]
    /\ evicted = [k \in AllKeys |-> "no"]
    /\ nextId \in IdStarts
    /\ \E early \in {NoEntry} \cup {new_fetch_meta(NoScenario, TRUE, i) : i \in 0..1} :
          /\ nextId = 0 => early = NoEntry
          /\ entry = [k \in AllKeys |->
                        IF k = link_key("c1", "q1") THEN early ELSE NoEntry]

NextAtomicId ==
    \/ \E k \in AllKeys : IdCreate(k)
    \/ \E k \in AllKeys : IdRemove(k)

SpecAtomicId == InitAtomicId /\ [][NextAtomicId]_vars

\* C35: no two rows that exist together carry the same id.
C35_IdsNeverRepeat ==
    \A k1, k2 \in AllKeys :
        (k1 # k2 /\ entry[k1] # NoEntry /\ entry[k2] # NoEntry) =>
            entry[k1].id # entry[k2].id

\* C36: every handle in an entry's set of pending task handles belongs to a
\* continuation of a paused fetch that has not finished.
C36_HandlesArePending ==
    \A k \in AllKeys :
        entry[k] # NoEntry =>
            \A h \in entry[k].future_handles : fetch[h[1]].phase # "done"

\* C37: a step that removes a row aborts every unfinished fetch that paused
\* on it, and an aborted fetch never moves again: it starts no attempt, returns
\* nothing and commits nothing, whatever row stands under its key afterwards.
C37_RemovalAbortsPaused ==
    [][\A f \in FetchIds :
          /\ \A k \in AllKeys :
                (/\ entry[k] # NoEntry
                 /\ entry'[k] = NoEntry
                 /\ InFlight(fetch[f])
                 /\ \E h \in entry[k].future_handles : h[1] = f)
                => fetch'[f].phase = "aborted"
          /\ fetch[f].phase = "aborted" => fetch'[f] = fetch[f]]_vars

\* a fetch was aborted while it waited for the connection, and a new row
\* has since been created under its key and been written by a later fetch
C37_Witness ==
    \E f \in FetchIds :
        /\ fetch[f].phase = "aborted"
        /\ fetch[f].inv = 0
        /\ entry[fetch[f].key] # NoEntry
        /\ entry[fetch[f].key].id # fetch[f].id
        /\ \E g \in FetchIds : /\ g # f
                                /\ fetch[g].key = fetch[f].key
                                /\ fetch[g].id = entry[fetch[f].key].id
                                /\ fetch[g].ret = "Fresh"

(***************************************************************************)
(* Specification of the connectivity wait: navigator.onLine, the           *)
(* thread-local OnlineHandler and tasks that await OnlineHandler::wait.    *)
(***************************************************************************)
MaxWaiters == 3
MaxWaits == 2
WaiterIds == 1..MaxWaiters

NoHandler == "absent"
IdleWaiter == [pc |-> "idle", n |-> 0, up |-> TRUE]

\* OnlineHandler::new: the `online` cell starts true
OnlineHandler_new == "online"

\* get_handler: the handler the thread-local Weak points to, or a new one
get_handler(h) == IF h = NoHandler THEN OnlineHandler_new ELSE h

\* OnlineHandler::set_online: the cell is set and notify_waiters wakes the
\* waiters whose Notified is enabled
set_online(ws) ==
    [w \in WaiterIds |-> IF ws[w].pc = "waiting" THEN [ws[w] EXCEPT !.pc = "woken"] ELSE ws[w]]

\* OnlineHandler::wait, one poll of its future: at the call and after a
\* wake-up the loop tests the cell; inside the loop the Notified is enabled,
\* check_online reads navigator.onLine, and the future awaits the Notified
OnlineHandler_wait(w) ==
    /\ \/ oh.waiters[w].pc = "idle"
       \/ oh.waiters[w].pc = "done" /\ oh.waiters[w].n < MaxWaits
       \/ oh.waiters[w].pc = "woken"
    /\ LET this == get_handler(oh.handler)
           me == oh.waiters[w]
           n1 == IF me.pc = "woken" THEN me.n ELSE me.n + 1
       IN  IF this = "online"
           THEN oh' = [oh EXCEPT !.handler = this,
                                 !.waiters[w] = [pc |-> "done", n |-> n1, up |-> oh.nav]]
           ELSE LET enabled == [oh.waiters EXCEPT ![w] = [me EXCEPT !.pc = "waiting", !.n = n1]]
                IN  IF oh.nav
                    THEN oh' = [oh EXCEPT !.handler = "online",
                                          !.waiters = set_online(enabled)]
                    ELSE oh' = [oh EXCEPT !.handler = "offline",
                                          !.waiters = enabled]
    /\ UNCHANGED <<pureVars, regVars, engVars, cell, fh, mu, ssr, ctl>>

\* the browser loses the connection
NavigatorOffline ==
    /\ oh.nav
    /\ oh' = [oh EXCEPT !.nav = FALSE]
    /\ UNCHANGED <<pureVars, regVars, engVars, cell, fh, mu, ssr, ctl>>

\* the browser regains the connection and fires "online": the JsEvent
\* closure of an existing handler calls set_online
NavigatorOnline ==
    /\ ~oh.nav
    /\ oh' = IF oh.handler = NoHandler
             THEN [oh EXCEPT !.nav = TRUE]
             ELSE [oh EXCEPT !.nav = TRUE, !.handler = "online",
                             !.waiters = set_online(@)]
    /\ UNCHANGED <<pureVars, regVars, engVars, cell, fh, mu, ssr, ctl>>

InitOnline ==
    /\ PureIdle
    /\ RegIdle
    /\ EngIdle
    /\ CellIdle /\ HandleIdle /\ MutateIdle /\ SsrIdle /\ CtlIdle
    /\ oh = [nav |-> TRUE, handler |-> NoHandler, waiters |-> [w \in WaiterIds |-> IdleWaiter]]

NextOnline ==
    \/ \E w \in WaiterIds : OnlineHandler_wait(w)
    \/ NavigatorOffline
    \/ NavigatorOnline

SpecOnline == InitOnline /\ [][NextOnline]_vars

\* C38: a call of OnlineHandler::wait that has completed completed while
\* connectivity was up.
C38_WaitCompletesOnline ==
    \A w \in WaiterIds : oh.waiters[w].pc = "done" => oh.waiters[w].up

ConnectedScenarios ==
    \* every policy Num(0) .. Num(MaxRetryNum): two overlapping fetches, removal
    \* and eviction
    Harness(OneKey, {Inherrit}, 0..MaxRetryNum, {Duration(CacheDur)},
            2, 2, 0, FALSE, TRUE, FALSE)
    \* Num(1): the same with a subscriber coming and going
    \cup Harness(OneKey, {Inherrit}, {1}, {Duration(CacheDur)}, 2, 2, 1, FALSE, TRUE, FALSE)

InitConnected ==
    /\ scn \in ConnectedScenarios
    /\ EngStart
    /\ PureIdle
    /\ RegIdle
    /\ CmpIdle

NextConnected ==
    \/ \E f \in FetchIds, c \in Clients, q \in Queries : FetchStart(f, c, q)
    \/ \E f \in FetchIds, ok \in BOOLEAN : FetchComplete(f, ok)
    \/ \E f \in FetchIds : RetryWake(f)
    \/ \E g \in GuardIds, c \in Clients, q \in Queries : Subscribe(g, c, q)
    \/ \E g \in GuardIds : DropGuard(g)
    \/ \E c \in Clients, q \in Queries : RemoveQuery(c, q)
    \/ \E k \in AllKeys : TimerStart(k)
    \/ \E k \in AllKeys : TimerFire(k)
    \/ \E k \in AllKeys : TimerNotified(k)
    \/ Tick

SpecConnected ==
    /\ InitConnected
    /\ [][NextConnected]_vars
    /\ \A f \in FetchIds : WF_vars(\E ok \in BOOLEAN : FetchComplete(f, ok))
    /\ \A f \in FetchIds : WF_vars(RetryWake(f))

\* C40: with the connection up and the policy Num(n), every fetch call that
\* was made eventually returns Fresh, Stale or Cancelled, having invoked the
\* query function at most n + 1 times.
C40_FetchReturns ==
    \A f \in FetchIds :
        (fetch[f].phase # "idle")
        ~> (/\ Done(f)
            /\ fetch[f].ret \in {"Fresh", "Stale", "Cancelled"}
            /\ fetch[f].inv <= ScnRetry.policy.n + 1)

\* under Num(MaxRetryNum) a fetch has returned after every retry the policy
\* allows, while the row was removed under another fetch, which returned
\* without committing
C40_Witness ==
    /\ ScnRetry.policy = Num(MaxRetryNum)
    /\ \E f, g \in FetchIds :
          /\ Done(f) /\ fetch[f].ret = "Fresh" /\ fetch[f].inv = MaxRetryNum + 1
          /\ Done(g) /\ fetch[g].ret \in {"Stale", "Cancelled"}

====
